---- MODULE Spec2Model ----
(***************************************************************************)
(* A model of the tower-climbing card battler in src/tradeoff_rpg.py:      *)
(* the Player and Enemy combatants, the loadout aggregation done by        *)
(* equip_deck, the turn loop of Combat.battle with its spells, channels    *)
(* and DoTs, and the floor / day loop of main.                             *)
(*                                                                         *)
(* Number scales.  The source keeps several stats as floats; the model     *)
(* keeps them as integers in a fixed unit:                                 *)
(*   player crit_chance, dodge_chance      tenths of a percent   (5.0->50) *)
(*   player crit_damage                    hundredths            (1.5->150)*)
(*   player attack_speed                   thousandths         (1.0->1000) *)
(*   enemy crit_chance, dodge_chance       1/10000 of a percent            *)
(*   enemy crit_damage, attack_speed       1/100000                        *)
(*   enemy scaling factors                 hundredths                      *)
(* A roll r of random.randint(1, 100) is compared as r * unit <= chance.   *)
(* The integer forms of the enemy scaling formulas agree with the float    *)
(* computation of the source on every floor the model generates.           *)
(***************************************************************************)
EXTENDS Integers, Sequences, FiniteSets, TLC

\* ------------------------------------------------------------------------
\* Bounds of the model
\* ------------------------------------------------------------------------

\* floors climbed in one day before the model stops the climb
MaxFloor == 2
\* days (tower runs) played
MaxDay == 2

\* the turns of one battle that are followed
MaxTurns == 4

\* ------------------------------------------------------------------------
\* Arithmetic helpers
\* ------------------------------------------------------------------------

Max(a, b) == IF a >= b THEN a ELSE b
Min(a, b) == IF a <= b THEN a ELSE b

\* v bound to the parameter of F: a value used several times is written once
Let(v, F(_)) == CHOOSE r \in {F(x) : x \in {v}} : TRUE

\* Python's int(n / d) for d > 0: truncation toward zero
IntDiv(n, d) == IF n >= 0 THEN n \div d ELSE -((-n) \div d)

\* the values random.randint(1, 100) is drawn from in the model: one that
\* passes every chance of at least 1%, one that fails every chance below 100%
Rolls == {1, 100}

\* the rolls one _perform_attack may consume: the defender's luck draw and
\* its two dodge rolls, the attacker's luck draw and its two crit rolls
RollSets == [dl : Rolls, d1 : Rolls, d2 : Rolls, cl : Rolls, c1 : Rolls, c2 : Rolls]

\* ------------------------------------------------------------------------
\* Cards (class Card) and the catalogs
\* ------------------------------------------------------------------------

NoCard == [name |-> "None", card_type |-> "passive", card_class |-> "stat",
           hp_bonus |-> 0, attack_bonus |-> 0, defense_bonus |-> 0,
           magic_attack_bonus |-> 0, mana_bonus |-> 0, mana_regen_bonus |-> 0,
           crit_chance_bonus |-> 0, crit_damage_bonus |-> 0,
           dodge_chance_bonus |-> 0, attack_speed_bonus |-> 0, luck_bonus |-> 0,
           special_effect |-> "None", damage |-> 0, mana_cost |-> 0,
           weapon_type |-> "None", accessory_type |-> "None"]

StatCard(n) == [NoCard EXCEPT !.name = n]
UniqueCard(n, eff) == [NoCard EXCEPT !.name = n, !.card_class = "unique", !.special_effect = eff]
SpellCard(n, eff, cost, speed) ==
    [NoCard EXCEPT !.name = n, !.card_type = "spell", !.card_class = "spell",
                   !.special_effect = eff, !.mana_cost = cost, !.attack_speed_bonus = speed]
WeaponCard(n, wt) ==
    [NoCard EXCEPT !.name = n, !.card_type = "weapon", !.card_class = "equipment", !.weapon_type = wt]

\* the cards of the catalogs that the modelled loadouts draw on
Card(n) ==
    CASE n = "Reckless 4"  -> [StatCard(n) EXCEPT !.attack_speed_bonus = 1000, !.defense_bonus = -24]
      [] n = "Intellect 1" -> [StatCard(n) EXCEPT !.magic_attack_bonus = 8]
      [] n = "Fortune 1"   -> [StatCard(n) EXCEPT !.luck_bonus = 5]
      [] n = "Vitality 4"  -> [StatCard(n) EXCEPT !.hp_bonus = 80]
      [] n = "Sword"       -> [WeaponCard(n, "sword") EXCEPT !.attack_bonus = 60, !.attack_speed_bonus = 1000]
      [] n = "Staff"       -> [WeaponCard(n, "staff") EXCEPT !.magic_attack_bonus = 60, !.attack_speed_bonus = 1000]
      [] n = "Plate Armor" -> [NoCard EXCEPT !.name = n, !.card_type = "armor",
                                             !.card_class = "equipment", !.defense_bonus = 40]
      [] n = "Bolt"        -> SpellCard(n, "bolt", 5, 0)
      [] n = "Fireball"    -> SpellCard(n, "fireball", 10, 1000)
      [] n = "Beam"        -> SpellCard(n, "beam", 30, 1000)
      [] n = "Meteor"      -> SpellCard(n, "meteor", 50, 500)
      [] n = "Incinerate"  -> SpellCard(n, "incinerate", 20, 1000)
      [] n = "Lucky 7"     -> UniqueCard(n, "lucky_7")
      [] n = "Quick Meteor" -> UniqueCard(n, "quick_meteor")
      [] n = "Dual Cast"   -> UniqueCard(n, "dual_cast")
      [] n = "Spellblade"  -> UniqueCard(n, "spellblade")
      [] n = "Impaler"     -> [UniqueCard(n, "impaler_weapon") EXCEPT
                                  !.card_type = "weapon", !.weapon_type = "dagger",
                                  !.attack_bonus = 30, !.attack_speed_bonus = 1400]
      [] n = "Ogre's Sword" -> [UniqueCard(n, "ogres_sword") EXCEPT
                                  !.card_type = "weapon", !.weapon_type = "greatsword",
                                  !.attack_bonus = 200, !.attack_speed_bonus = 500]
      [] n = "Vitality 1"  -> [StatCard(n) EXCEPT !.hp_bonus = 20]
      [] n = "Strength 2"  -> [StatCard(n) EXCEPT !.attack_bonus = 10]
      [] n = "Wisdom 1"    -> [StatCard(n) EXCEPT !.mana_bonus = 30]
      [] n = "Pinpoint 1"  -> [StatCard(n) EXCEPT !.crit_chance_bonus = 75,
                                                  !.attack_bonus = -10,
                                                  !.magic_attack_bonus = -10]
      [] n = "Greatsword"  -> [WeaponCard(n, "greatsword") EXCEPT !.attack_bonus = 140,
                                                                  !.attack_speed_bonus = 700]
      [] n = "Dagger"      -> [WeaponCard(n, "dagger") EXCEPT !.attack_bonus = 40,
                                                              !.attack_speed_bonus = 1500]
      [] n = "Bow"         -> [WeaponCard(n, "bow") EXCEPT !.attack_bonus = 55,
                                                           !.attack_speed_bonus = 1100]
      [] n = "Wand"        -> [WeaponCard(n, "wand") EXCEPT !.magic_attack_bonus = 45,
                                                            !.attack_speed_bonus = 1300]
      [] n = "Tome"        -> [WeaponCard(n, "tome") EXCEPT !.magic_attack_bonus = 75,
                                                            !.attack_speed_bonus = 800]
      [] n = "Shield"      -> [WeaponCard(n, "shield") EXCEPT !.defense_bonus = 10,
                                                              !.attack_speed_bonus = 1000]
      [] n = "Quiver"      -> [WeaponCard(n, "quiver") EXCEPT !.attack_bonus = 20,
                                                              !.attack_speed_bonus = 200]
      [] n = "Robes"       -> [NoCard EXCEPT !.name = n, !.card_type = "armor",
                                             !.card_class = "equipment", !.defense_bonus = 15]
      [] n = "Ring of Power" -> [NoCard EXCEPT !.name = n, !.card_type = "accessory",
                                               !.card_class = "equipment",
                                               !.accessory_type = "ring",
                                               !.attack_bonus = 35, !.magic_attack_bonus = 35]
      [] n = "Amulet of Vitality" -> [NoCard EXCEPT !.name = n, !.card_type = "accessory",
                                                    !.card_class = "equipment",
                                                    !.accessory_type = "amulet",
                                                    !.hp_bonus = 100]
      [] n = "Reactive Armor" -> [UniqueCard(n, "reactive_armor") EXCEPT
                                    !.magic_attack_bonus = -9]
      [] n = "Titan's Strength" -> UniqueCard(n, "titans_strength")
      [] n = "Berserker's Rage" -> [UniqueCard(n, "berserkers_rage") EXCEPT !.hp_bonus = -50]
      [] n = "Unending Rage" -> UniqueCard(n, "unending_rage")
      [] n = "Barrier"     -> UniqueCard(n, "barrier")
      [] n = "Barrier Permanence" -> UniqueCard(n, "barrier_permanence")
      [] n = "Axe"         -> [WeaponCard(n, "axe") EXCEPT !.attack_bonus = 90,
                                                           !.attack_speed_bonus = 900]
      [] n = "Spear"       -> [WeaponCard(n, "spear") EXCEPT !.attack_bonus = 60,
                                                             !.attack_speed_bonus = 1200]
      [] n = "Mana Amplifier" -> UniqueCard(n, "mana_amplifier")
      [] n = "Arcane Tome Wielder" -> [UniqueCard(n, "arcane_tome_wielder") EXCEPT
                                         !.attack_bonus = -100]
      [] OTHER -> NoCard

\* a loadout is a sequence of card names; Cards(deck) is the list of records
Cards(deck) == [i \in 1..Len(deck) |-> Card(deck[i])]

RECURSIVE SumFieldGains(_, _)
\* the sum that leaves the negative deltas out
SumFieldGains(cards, field) ==
    IF cards = <<>> THEN 0
    ELSE (IF Head(cards).card_class # "unique" /\ Head(cards)[field] > 0
          THEN Head(cards)[field] ELSE 0)
         + SumFieldGains(Tail(cards), field)

RECURSIVE SumField(_, _)
\* sum(card.<field> for card in cards if card.card_class != CardClass.UNIQUE)
SumField(cards, field) ==
    IF cards = <<>> THEN 0
    ELSE (IF Head(cards).card_class # "unique" THEN Head(cards)[field] ELSE 0)
         + SumField(Tail(cards), field)

\* any(c.special_effect == eff for c in cards)
\* the test on the last card of the loadout only
HasEffectLast(cards, eff) == cards # <<>> /\ cards[Len(cards)].special_effect = eff

HasEffect(cards, eff) == \E i \in 1..Len(cards) : cards[i].special_effect = eff

\* [card for card in cards if card.card_class == CardClass.SPELL], as names
SpellCards(cards) == SelectSeq([i \in 1..Len(cards) |-> cards[i].name],
                               LAMBDA n : Card(n).card_class = "spell")

RECURSIVE SumWeaponDamage(_)
\* sum(card.damage for card in cards if card.card_type == CardType.WEAPON)
SumWeaponDamage(cards) ==
    IF cards = <<>> THEN 0
    ELSE (IF Head(cards).card_type = "weapon" THEN Head(cards).damage ELSE 0)
         + SumWeaponDamage(Tail(cards))

CountWhere(cards, P(_)) == Cardinality({i \in 1..Len(cards) : P(cards[i])})

\* ------------------------------------------------------------------------
\* Player (class Player)
\* ------------------------------------------------------------------------

\* Player.__init__ : the base stats
base_hp == 100
base_attack == 10
base_defense == 5
base_magic_attack == 0
base_mana == 50
base_mana_regen == 10
base_crit_chance == 50
base_crit_damage == 150
base_dodge_chance == 50
base_attack_speed == 1000
base_luck == 0

\* the has_* flags set from the unique cards of the loadout
UniqueEffects == {"unparalleled_swiftness", "reactive_armor", "lucky_7", "mana_amplifier",
                  "mana_conduit", "titans_strength", "arcane_tome_wielder", "berserkers_rage",
                  "barrier", "unending_rage", "barrier_permanence", "dual_cast", "quick_meteor",
                  "spellblade", "impaler_weapon", "arcane_battery", "ogres_sword"}

\* the names of the ascension cards (get_ascension_cards)
AscensionCards == {"Ancestral Rage", "Impaler", "Blood Magic", "Blind Master", "Finishing Strike"}

\* Player.__init__ : escaped_floor None is 0, a spell slot None is "None"
Player_init ==
    [current_floor |-> 0, is_alive |-> TRUE, escaped_floor |-> 0,
     max_hp |-> base_hp, current_hp |-> base_hp, attack |-> base_attack,
     defense |-> base_defense, magic_attack |-> base_magic_attack,
     max_mana |-> base_mana, current_mana |-> base_mana, mana_regen |-> base_mana_regen,
     crit_chance |-> base_crit_chance, crit_damage |-> base_crit_damage,
     dodge_chance |-> base_dodge_chance, attack_speed |-> base_attack_speed,
     luck |-> base_luck,
     dodged_last_attack |-> FALSE,
     deck |-> <<>>, active_cards |-> <<>>,
     has |-> [e \in UniqueEffects |-> FALSE],
     reactive_armor_active |-> FALSE,
     lucky_7_failed_crit_rolls |-> 0, lucky_7_failed_dodge_rolls |-> 0,
     rage_stacks |-> 0, shield |-> 0,
     equipped_spell |-> "None", channeling_spell |-> "None",
     channeling_turns_remaining |-> 0, channeling_damage |-> 0,
     meteor_channeling |-> FALSE, meteor_channeling_turns |-> 0, meteor_damage |-> 0,
     dot_effects |-> <<>>,
     equipped_spell_2 |-> "None", battery_spell |-> "None", battery_turn_counter |-> 0,
     monsters_killed |-> 0, floors_cleared |-> 0,
     level |-> 1, current_xp |-> 0, highest_floor |-> 0, bounty |-> 0, day |-> 1,
     ascension_slots |-> <<>>,
     asc |-> [a \in AscensionCards |-> FALSE],
     ancestral_rage_stacks |-> 0]

\* Player._apply_ascension_cards
apply_ascension_cards(p) ==
    [p EXCEPT !.asc = [a \in AscensionCards |->
                          \E i \in 1..Len(p.ascension_slots) : p.ascension_slots[i] = a]]

\* the validator that stops at the first violation it finds
validate_equipment_limits_first(p) ==
    LET cards == Cards(p.active_cards)
        has_titans_strength == HasEffect(cards, "titans_strength")
        wcount(wt) == CountWhere(cards, LAMBDA c : c.card_type = "weapon" /\ c.weapon_type = wt)
        acount(at) == CountWhere(cards, LAMBDA c : c.card_type = "accessory" /\ c.accessory_type = at)
        armor_count == CountWhere(cards, LAMBDA c : c.card_type = "armor")
        weapon_errors ==
            { [group |-> wt, count |-> wcount(wt)] :
                wt \in { w \in {"sword", "wand", "shield", "quiver", "greatsword", "axe",
                                "spear", "staff", "tome", "dagger", "bow"} :
                         /\ wcount(w) > 1
                         /\ CASE w \in {"sword", "wand", "shield", "quiver"} -> wcount(w) > 2
                              [] w \in {"greatsword", "axe", "spear"} ->
                                    (~has_titans_strength) \/ wcount(w) > 2
                              [] w = "tome" -> FALSE
                              [] OTHER -> TRUE } }
        accessory_errors ==
            { [group |-> at, count |-> acount(at)] :
                at \in { a \in {"ring", "amulet"} :
                         \/ a = "ring" /\ acount(a) > 2
                         \/ a = "amulet" /\ acount(a) > 1 } }
        armor_errors ==
            IF armor_count > 1 THEN {[group |-> "armor", count |-> armor_count]} ELSE {}
    IN  IF weapon_errors # {} THEN {CHOOSE e \in weapon_errors : TRUE}
        ELSE IF accessory_errors # {} THEN {CHOOSE e \in accessory_errors : TRUE}
        ELSE armor_errors

\* Player._validate_equipment_limits : the violations, one record for each
\* group over its cap
validate_equipment_limits(p) ==
    LET cards == Cards(p.active_cards)
        has_titans_strength == HasEffect(cards, "titans_strength")
        wcount(wt) == CountWhere(cards, LAMBDA c : c.card_type = "weapon" /\ c.weapon_type = wt)
        acount(at) == CountWhere(cards, LAMBDA c : c.card_type = "accessory" /\ c.accessory_type = at)
        armor_count == CountWhere(cards, LAMBDA c : c.card_type = "armor")
        weapon_errors ==
            { [group |-> wt, count |-> wcount(wt)] :
                wt \in { w \in {"sword", "wand", "shield", "quiver", "greatsword", "axe",
                                "spear", "staff", "tome", "dagger", "bow"} :
                         /\ wcount(w) > 1
                         /\ CASE w \in {"sword", "wand", "shield", "quiver"} -> wcount(w) > 2
                              [] w \in {"greatsword", "axe", "spear"} ->
                                    (~has_titans_strength) \/ wcount(w) > 2
                              [] w = "tome" -> FALSE
                              [] OTHER -> TRUE } }
        accessory_errors ==
            { [group |-> at, count |-> acount(at)] :
                at \in { a \in {"ring", "amulet"} :
                         \/ a = "ring" /\ acount(a) > 2
                         \/ a = "amulet" /\ acount(a) > 1 } }
        armor_errors ==
            IF armor_count > 1 THEN {[group |-> "armor", count |-> armor_count]} ELSE {}
    IN  weapon_errors \cup accessory_errors \cup armor_errors

\* Player._apply_card_bonuses
apply_card_bonuses(p) ==
    LET cards == Cards(p.active_cards)
        has == [e \in UniqueEffects |-> HasEffect(cards, e)]
        \* the sums over the cards that are not unique, added to the base stats
        max_hp0 == base_hp + SumField(cards, "hp_bonus")
        attack0 == base_attack + SumField(cards, "attack_bonus")
        defense0 == base_defense + SumField(cards, "defense_bonus")
        magic0 == base_magic_attack + SumField(cards, "magic_attack_bonus")
        max_mana0 == base_mana + SumField(cards, "mana_bonus")
        regen0 == base_mana_regen + SumField(cards, "mana_regen_bonus")
        crit0 == base_crit_chance + SumField(cards, "crit_chance_bonus")
        critdmg0 == base_crit_damage + SumField(cards, "crit_damage_bonus")
        dodge0 == base_dodge_chance + SumField(cards, "dodge_chance_bonus")
        speed0 == base_attack_speed + SumField(cards, "attack_speed_bonus")
        luck0 == base_luck + SumField(cards, "luck_bonus")
        \* Unparalleled Swiftness
        attack1 == IF has["unparalleled_swiftness"] THEN IntDiv(attack0 * 7, 10) ELSE attack0
        magic1 == IF has["unparalleled_swiftness"] THEN IntDiv(magic0 * 7, 10) ELSE magic0
        speed1 == IF has["unparalleled_swiftness"] THEN speed0 + 3000 ELSE speed0
        \* Reactive Armor
        magic2 == IF has["reactive_armor"] THEN IntDiv(magic1, 10) ELSE magic1
        \* Mana Conduit
        attack2 == IF has["mana_conduit"] THEN 0 ELSE attack1
        regen1 == IF has["mana_conduit"] THEN regen0 + IntDiv(max_mana0, 4) ELSE regen0
        \* Titan's Strength
        speed2 == IF has["titans_strength"]
                  THEN base_attack_speed + IntDiv(speed1 - base_attack_speed, 2)
                  ELSE speed1
        \* Arcane Tome Wielder
        num_tomes == Min(CountWhere(cards, LAMBDA c : c.name = "Tome"), 4)
        attack3 == IF has["arcane_tome_wielder"] THEN 0 ELSE attack2
        magic3 == IF has["arcane_tome_wielder"]
                  THEN IntDiv(magic2 * (100 + 25 * num_tomes), 100) ELSE magic2
        \* Blind Master
        dodge1 == IF p.asc["Blind Master"] THEN dodge0 + 1000 ELSE dodge0
        crit1 == IF p.asc["Blind Master"] THEN 0 ELSE crit0
        \* spell slots: assigned only when the loadout holds a spell card
        spell_cards == SpellCards(cards)
        n == Len(spell_cards)
        battery_index == IF has["dual_cast"] /\ n >= 3 THEN 3 ELSE 2
    IN  [p EXCEPT
           !.has = has,
           !.max_hp = max_hp0, !.attack = attack3, !.defense = defense0,
           !.magic_attack = magic3, !.max_mana = max_mana0, !.mana_regen = regen1,
           !.crit_chance = crit1, !.crit_damage = critdmg0, !.dodge_chance = dodge1,
           !.attack_speed = speed2, !.luck = luck0,
           !.equipped_spell = IF n >= 1 THEN spell_cards[1] ELSE @,
           !.equipped_spell_2 = IF n >= 2 /\ has["dual_cast"] THEN spell_cards[2] ELSE @,
           !.battery_spell = IF n >= 2 /\ has["arcane_battery"] /\ battery_index <= n
                             THEN spell_cards[battery_index] ELSE @,
           !.current_hp = Min(@, max_hp0),
           !.current_mana = Min(@, max_mana0)]

\* equip_deck that extends the active card list instead of replacing it
equip_deck_extending(p, deck) ==
    LET p1 == apply_ascension_cards([p EXCEPT !.deck = deck,
                                              !.active_cards = p.active_cards \o deck])
        validation_errors == validate_equipment_limits(p1)
    IN  IF validation_errors # {}
        THEN [player |-> p1, raised |-> TRUE, errors |-> validation_errors]
        ELSE [player |-> apply_card_bonuses(p1), raised |-> FALSE, errors |-> {}]

\* Player.equip_deck : the player afterwards, and whether ValueError was raised
equip_deck(p, deck) ==
    LET p1 == apply_ascension_cards([p EXCEPT !.deck = deck, !.active_cards = deck])
        validation_errors == validate_equipment_limits(p1)
    IN  IF validation_errors # {}
        THEN [player |-> p1, raised |-> TRUE, errors |-> validation_errors]
        ELSE [player |-> apply_card_bonuses(p1), raised |-> FALSE, errors |-> {}]

\* Player.take_damage without the clamp: the HP is left where the hit took it
Player_take_damage_unclamped(p, damage) ==
    LET actual0 == Max(1, damage - p.defense)
        halved == p.has["reactive_armor"] /\ p.reactive_armor_active
        actual1 == IF halved THEN actual0 \div 2 ELSE actual0
        absorbed == IF p.shield > 0 THEN Min(p.shield, actual1) ELSE 0
        actual2 == actual1 - absorbed
        hp1 == IF actual2 > 0 THEN p.current_hp - actual2 ELSE p.current_hp
        escaped == hp1 <= 1
    IN  [player |-> [p EXCEPT !.shield = p.shield - absorbed,
                              !.reactive_armor_active =
                                  IF p.has["reactive_armor"] /\ actual2 > 0 THEN TRUE
                                  ELSE IF halved THEN FALSE ELSE @,
                              !.current_hp = hp1,
                              !.escaped_floor = IF escaped THEN p.current_floor ELSE @,
                              !.is_alive = IF escaped THEN FALSE ELSE @],
         escaped |-> escaped]

\* Player.take_damage : the player afterwards and the value returned
Player_take_damage(p, damage) ==
    LET actual0 == Max(1, damage - p.defense)
        halved == p.has["reactive_armor"] /\ p.reactive_armor_active
        actual1 == IF halved THEN actual0 \div 2 ELSE actual0
        absorbed == IF p.shield > 0 THEN Min(p.shield, actual1) ELSE 0
        shield1 == p.shield - absorbed
        actual2 == actual1 - absorbed
        hp1 == IF actual2 > 0 THEN p.current_hp - actual2 ELSE p.current_hp
        armor1 == IF p.has["reactive_armor"] /\ actual2 > 0 THEN TRUE
                  ELSE IF halved THEN FALSE ELSE p.reactive_armor_active
        escaped == hp1 <= 1
    IN  [player |-> [p EXCEPT !.shield = shield1,
                              !.reactive_armor_active = armor1,
                              !.current_hp = IF escaped THEN 1 ELSE hp1,
                              !.escaped_floor = IF escaped THEN p.current_floor ELSE @,
                              !.is_alive = IF escaped THEN FALSE ELSE @],
         escaped |-> escaped]

\* Player.get_weapon_damage
get_weapon_damage(p) ==
    LET cards == Cards(p.active_cards)
        weapon_damage == SumWeaponDamage(cards)
        rage_bonus == IF p.has["berserkers_rage"] THEN p.rage_stacks * 5 ELSE 0
        ancestral_rage_bonus == IF p.asc["Ancestral Rage"] THEN p.ancestral_rage_stacks * 5 ELSE 0
    IN  p.attack + weapon_damage + rage_bonus + ancestral_rage_bonus

\* Player.get_attack_speed, in thousandths
get_attack_speed(p) ==
    IF p.asc["Ancestral Rage"]
    THEN p.attack_speed + (p.ancestral_rage_stacks \div 5) * 100
    ELSE p.attack_speed

\* Player.regenerate_mana
Player_regenerate_mana(p) ==
    [p EXCEPT !.current_mana = Min(p.current_mana + p.mana_regen, p.max_mana)]

\* Player.has_magic_weapon
has_magic_weapon(p) ==
    \E i \in 1..Len(p.active_cards) :
        /\ Card(p.active_cards[i]).card_type = "weapon"
        /\ Card(p.active_cards[i]).weapon_type \in {"wand", "staff", "tome"}

\* Player.can_cast_spells
can_cast_spells(p) == has_magic_weapon(p) \/ p.has["spellblade"]

\* can_dodge with no dodge lock: the flag is never looked at
dodge_locked_never(dodged_last_attack) == FALSE

\* the first test of can_dodge, "can't dodge twice in a row"
dodge_locked(dodged_last_attack) == dodged_last_attack

\* the Lucky 7 test with the guarantee one failure late
lucky_7_guaranteed_late(p, failed_rolls) == p.has["lucky_7"] /\ failed_rolls >= 8

\* the Lucky 7 test of can_dodge and calculate_damage: the luck roll is
\* guaranteed once the failure counter has reached 7
lucky_7_guaranteed(p, failed_rolls) == p.has["lucky_7"] /\ failed_rolls >= 7

\* the failure counter with a successful draw starting the count again
lucky_7_track_restart(p, failed_rolls, luck_triggered) ==
    IF ~p.has["lucky_7"] THEN failed_rolls
    ELSE IF luck_triggered THEN 0 ELSE failed_rolls + 1

\* the failure counter after a luck draw: one more when the draw failed
\* and the player holds Lucky 7, unchanged when the draw succeeded
lucky_7_track(p, failed_rolls, luck_triggered) ==
    IF (~luck_triggered) /\ p.has["lucky_7"] THEN failed_rolls + 1 ELSE failed_rolls

\* the roll compared with the dodge chance after a triggered luck re-roll
dodge_reroll(roll1, roll2) == Max(roll1, roll2)

\* the roll compared with the crit chance after a triggered luck re-roll
crit_reroll(roll1, roll2) == Min(roll1, roll2)

\* Player.can_dodge with the rolls r.dl (luck), r.d1, r.d2.  Besides the
\* player and the value returned, the result tells what was drawn.
Player_can_dodge(p, r) ==
    IF dodge_locked(p.dodged_last_attack)
    THEN [player |-> p, success |-> FALSE, rolled |-> FALSE, guaranteed |-> FALSE,
          luck_drawn |-> FALSE, luck_triggered |-> FALSE]
    ELSE
    LET guaranteed == lucky_7_guaranteed(p, p.lucky_7_failed_dodge_rolls)
        count0 == IF guaranteed THEN 0 ELSE p.lucky_7_failed_dodge_rolls
        luck_drawn == p.luck > 0 /\ ~guaranteed
        luck_triggered == p.luck > 0 /\ (guaranteed \/ r.dl <= p.luck)
        count1 == IF luck_drawn THEN lucky_7_track(p, count0, luck_triggered) ELSE count0
        success == IF luck_triggered
                   THEN dodge_reroll(r.d1, r.d2) * 10 <= p.dodge_chance
                   ELSE r.d1 * 10 <= p.dodge_chance
    IN  [player |-> [p EXCEPT !.lucky_7_failed_dodge_rolls = count1,
                              !.dodged_last_attack = success],
         success |-> success, rolled |-> TRUE, guaranteed |-> guaranteed,
         luck_drawn |-> luck_drawn, luck_triggered |-> luck_triggered]

\* Player.calculate_damage with the rolls r.cl (luck), r.c1, r.c2
Player_calculate_damage(p, base_damage, r) ==
    LET guaranteed == lucky_7_guaranteed(p, p.lucky_7_failed_crit_rolls)
        count0 == IF guaranteed THEN 0 ELSE p.lucky_7_failed_crit_rolls
        luck_drawn == p.luck > 0 /\ ~guaranteed
        luck_triggered == p.luck > 0 /\ (guaranteed \/ r.cl <= p.luck)
        count1 == IF luck_drawn THEN lucky_7_track(p, count0, luck_triggered) ELSE count0
        is_crit == IF luck_triggered
                   THEN crit_reroll(r.c1, r.c2) * 10 <= p.crit_chance
                   ELSE r.c1 * 10 <= p.crit_chance
    IN  [player |-> [p EXCEPT !.lucky_7_failed_crit_rolls = count1],
         damage |-> IF is_crit THEN IntDiv(base_damage * p.crit_damage, 100) ELSE base_damage,
         is_crit |-> is_crit, guaranteed |-> guaranteed,
         luck_drawn |-> luck_drawn, luck_triggered |-> luck_triggered]

\* Player.reset_for_floor
\* the reset without the tests for Unending Rage and Barrier Permanence
reset_for_floor_all(p) ==
    [p EXCEPT !.current_hp = p.max_hp,
              !.current_mana = p.max_mana,
              !.dodged_last_attack = FALSE,
              !.reactive_armor_active = FALSE,
              !.rage_stacks = 0,
              !.shield = 0,
              !.ancestral_rage_stacks = 0]

reset_for_floor(p) ==
    [p EXCEPT !.current_hp = p.max_hp,
              !.current_mana = p.max_mana,
              !.dodged_last_attack = FALSE,
              !.reactive_armor_active = FALSE,
              !.rage_stacks = IF p.has["unending_rage"] THEN @ ELSE 0,
              !.shield = IF p.has["barrier_permanence"] THEN Min(@, p.max_hp * 2) ELSE 0,
              !.ancestral_rage_stacks = 0]

\* Player.get_xp_for_next_level
get_xp_for_next_level(level) == level * level * 1000 + (level \div 10) * 10000

RECURSIVE times11(_, _)
\* eleven times a number written in decimal digits, the lowest first
times11(digits, carry) ==
    IF digits = <<>>
    THEN IF carry = 0 THEN <<>> ELSE <<carry % 10>> \o times11(<<>>, carry \div 10)
    ELSE <<(Head(digits) * 11 + carry) % 10>>
         \o times11(Tail(digits), (Head(digits) * 11 + carry) \div 10)

RECURSIVE pow11(_)
\* 11^k in decimal digits, the lowest first
pow11(k) == IF k = 0 THEN <<1>> ELSE times11(pow11(k - 1), 0)

RECURSIVE number(_)
\* the number written by the digits
number(digits) == IF digits = <<>> THEN 0 ELSE Head(digits) + 10 * number(Tail(digits))

\* Player.get_xp_from_floor : int(100 * 1.1 ** (floor - 1)), computed
\* exactly as 11^k with its k - 2 lowest digits dropped, k = floor - 1
get_xp_from_floor(floor) ==
    CASE floor = 1 -> 100
      [] floor = 2 -> 110
      [] OTHER -> number(SubSeq(pow11(floor - 1), floor - 2, Len(pow11(floor - 1))))

\* the loop of Player.gain_xp run as an `if`: one level at most
level_up_once(level, xp) ==
    IF level < 20 /\ xp >= get_xp_for_next_level(level)
    THEN [level |-> level + 1, current_xp |-> xp - get_xp_for_next_level(level)]
    ELSE [level |-> level, current_xp |-> xp]

RECURSIVE level_up(_, _)
\* the while loop of Player.gain_xp on (level, current_xp)
level_up(level, xp) ==
    IF level < 20 /\ xp >= get_xp_for_next_level(level)
    THEN level_up(level + 1, xp - get_xp_for_next_level(level))
    ELSE [level |-> level, current_xp |-> xp]

\* Player.gain_xp : the player afterwards and the value returned
gain_xp(p, floor) ==
    LET r == level_up(p.level, p.current_xp + get_xp_from_floor(floor))
    IN  [player |-> [p EXCEPT !.level = r.level, !.current_xp = r.current_xp],
         leveled_up |-> r.level > p.level]

\* a kill that is paid twice
count_kill_twice(p) == [p EXCEPT !.monsters_killed = @ + 1, !.bounty = @ + 2]

\* Player.gain_bounty(1) together with monsters_killed += 1, as every
\* defeat handler of Combat does
count_kill(p) == [p EXCEPT !.monsters_killed = @ + 1, !.bounty = @ + 1]

\* ------------------------------------------------------------------------
\* Enemy (class Enemy) and Tower
\* ------------------------------------------------------------------------

EnemyTypes == {"Goblin", "Skeleton", "Slime", "Wraith", "Dragon", "Golem", "Demon",
               "Vampire", "Mage", "Warlock", "Sorcerer"}

\* the scaling_factor tables of Enemy._scale_*, in hundredths
hp_factor(t) ==
    CASE t = "Slime" -> 120 [] t = "Golem" -> 150 [] t = "Goblin" -> 80 [] t = "Wraith" -> 90
      [] t = "Skeleton" -> 100 [] t = "Vampire" -> 110 [] t = "Demon" -> 100
      [] t = "Dragon" -> 130 [] t = "Mage" -> 70 [] t = "Warlock" -> 80
      [] t = "Sorcerer" -> 75 [] OTHER -> 100
attack_factor(t) ==
    CASE t = "Demon" -> 140 [] t = "Dragon" -> 130 [] t = "Vampire" -> 120 [] t = "Goblin" -> 110
      [] t = "Skeleton" -> 100 [] t = "Wraith" -> 110 [] t = "Slime" -> 70 [] t = "Golem" -> 80
      [] t = "Mage" -> 50 [] t = "Warlock" -> 40 [] t = "Sorcerer" -> 30 [] OTHER -> 100
defense_factor(t) ==
    CASE t = "Golem" -> 180 [] t = "Dragon" -> 140 [] t = "Skeleton" -> 120 [] t = "Demon" -> 110
      [] t = "Vampire" -> 100 [] t = "Slime" -> 80 [] t = "Goblin" -> 60 [] t = "Wraith" -> 50
      [] t = "Mage" -> 40 [] t = "Warlock" -> 50 [] t = "Sorcerer" -> 40 [] OTHER -> 100
magic_attack_factor(t) ==
    CASE t = "Sorcerer" -> 150 [] t = "Warlock" -> 140 [] t = "Mage" -> 130 [] t = "Demon" -> 110
      [] t = "Dragon" -> 100 [] t = "Wraith" -> 90 [] t = "Vampire" -> 50 [] OTHER -> 0
mana_factor(t) ==
    CASE t = "Sorcerer" -> 130 [] t = "Warlock" -> 120 [] t = "Mage" -> 110 [] t = "Demon" -> 80
      [] t = "Wraith" -> 60 [] OTHER -> 0
mana_regen_factor(t) ==
    CASE t = "Sorcerer" -> 120 [] t = "Warlock" -> 110 [] t = "Mage" -> 100 [] t = "Demon" -> 70
      [] t = "Wraith" -> 50 [] OTHER -> 0
crit_chance_factor(t) ==
    CASE t = "Vampire" -> 180 [] t = "Demon" -> 150 [] t = "Goblin" -> 130 [] t = "Wraith" -> 120
      [] t = "Sorcerer" -> 110 [] t = "Golem" -> 30 [] t = "Slime" -> 50 [] OTHER -> 100
crit_damage_factor(t) ==
    CASE t = "Vampire" -> 140 [] t = "Demon" -> 130 [] t = "Dragon" -> 120
      [] t = "Sorcerer" -> 120 [] OTHER -> 100
dodge_chance_factor(t) ==
    CASE t = "Wraith" -> 200 [] t = "Goblin" -> 150 [] t = "Vampire" -> 130 [] t = "Mage" -> 120
      [] t = "Golem" -> 20 [] t = "Dragon" -> 30 [] t = "Slime" -> 40 [] OTHER -> 100
attack_speed_factor(t) ==
    CASE t = "Goblin" -> 130 [] t = "Vampire" -> 120 [] t = "Wraith" -> 120 [] t = "Golem" -> 70
      [] t = "Dragon" -> 80 [] OTHER -> 100
luck_factor(t) ==
    CASE t = "Goblin" -> 150 [] t = "Vampire" -> 120 [] t = "Demon" -> 100 [] OTHER -> 0

\* Enemy.__init__(floor, enemy_type) with the _scale_* formulas
\* int(base * factor + floor * k * factor).  id tells the objects of one
\* floor apart; incoming records, for the properties only, how the last
\* attack on this enemy that went through the dodge check ended.
Enemy(floor, t, id) ==
    LET hp == (hp_factor(t) * (500 + 25 * floor)) \div 1000
        mana == (mana_factor(t) * (100 + floor)) \div 100
    IN  [id |-> id, enemy_type |-> t,
         max_hp |-> hp, current_hp |-> hp,
         attack |-> (attack_factor(t) * (80 + 12 * floor)) \div 1000,
         defense |-> (defense_factor(t) * (30 + 8 * floor)) \div 1000,
         magic_attack |-> (magic_attack_factor(t) * (100 + 15 * floor)) \div 1000,
         max_mana |-> mana, current_mana |-> mana,
         mana_regen |-> (mana_regen_factor(t) * (150 + 3 * floor)) \div 1000,
         crit_chance |-> Min(500000, crit_chance_factor(t) * (500 + 5 * floor)),
         crit_damage |-> crit_damage_factor(t) * (1500 + floor),
         dodge_chance |-> Min(400000, dodge_chance_factor(t) * (300 + 4 * floor)),
         attack_speed |-> attack_speed_factor(t) * (1000 + floor),
         luck |-> (floor * 2 * luck_factor(t)) \div 10000,
         dodged_last_attack |-> FALSE, impaled |-> FALSE, stunned |-> FALSE,
         incoming |-> "none"]

\* Enemy.regenerate_mana
Enemy_regenerate_mana(e) ==
    IF e.max_mana > 0
    THEN [e EXCEPT !.current_mana = Min(e.current_mana + e.mana_regen, e.max_mana)]
    ELSE e

\* Enemy.can_dodge with the rolls r.dl (luck), r.d1, r.d2
Enemy_can_dodge(e, r) ==
    IF dodge_locked(e.dodged_last_attack)
    THEN [enemy |-> e, success |-> FALSE, rolled |-> FALSE, luck_triggered |-> FALSE]
    ELSE
    LET luck_triggered == e.luck > 0 /\ r.dl <= e.luck
        success == IF luck_triggered
                   THEN dodge_reroll(r.d1, r.d2) * 10000 <= e.dodge_chance
                   ELSE r.d1 * 10000 <= e.dodge_chance
    IN  [enemy |-> [e EXCEPT !.dodged_last_attack = success],
         success |-> success, rolled |-> TRUE, luck_triggered |-> luck_triggered]

\* Enemy.calculate_damage with the rolls r.cl (luck), r.c1, r.c2
Enemy_calculate_damage(e, base_damage, r) ==
    LET luck_triggered == e.luck > 0 /\ r.cl <= e.luck
        is_crit == IF luck_triggered
                   THEN crit_reroll(r.c1, r.c2) * 10000 <= e.crit_chance
                   ELSE r.c1 * 10000 <= e.crit_chance
    IN  [damage |-> IF is_crit THEN IntDiv(base_damage * e.crit_damage, 100000) ELSE base_damage,
         is_crit |-> is_crit, luck_triggered |-> luck_triggered]

\* Enemy.take_damage : the enemy afterwards and the value returned
Enemy_take_damage(e, damage) ==
    LET hp1 == e.current_hp - Max(1, damage - e.defense)
    IN  [enemy |-> [e EXCEPT !.current_hp = hp1], defeated |-> hp1 <= 0]

\* Tower.generate_enemies : 1 + floor // 100 enemies, at most 5
num_enemies(floor) == Min(1 + floor \div 100, 5)

\* ------------------------------------------------------------------------
\* Combat._perform_attack
\* ------------------------------------------------------------------------

\* the record of a defender's incoming attacks: the outcome of the last one,
\* "twice" when it and the one before it were both dodged, "hit_after_dodge"
\* when it landed and the one before it was dodged
Outcome(prev, dodged) ==
    IF dodged THEN (IF prev \in {"dodged", "twice"} THEN "twice" ELSE "dodged")
    ELSE IF prev \in {"dodged", "twice"} THEN "hit_after_dodge" ELSE "hit"


\* the player attacks enemy e for `damage`
attack_enemy(p, e, damage, r) ==
    Let(Enemy_can_dodge(e, r), LAMBDA d :
        IF d.success
        THEN [player |-> p, enemy |-> [d.enemy EXCEPT !.incoming = Outcome(@, TRUE)],
              dodged |-> TRUE, defeated |-> FALSE, damage |-> 0, is_crit |-> FALSE]
        ELSE Let(Player_calculate_damage(p, damage, r), LAMBDA c :
             Let(Enemy_take_damage([d.enemy EXCEPT !.dodged_last_attack = FALSE], c.damage),
                 LAMBDA t :
                 [player |-> c.player,
                  enemy |-> [t.enemy EXCEPT !.incoming = Outcome(@, FALSE)],
                  dodged |-> FALSE, defeated |-> t.defeated, damage |-> c.damage,
                  is_crit |-> c.is_crit])))

\* enemy e attacks the player for `damage`
attack_player(e, p, damage, r) ==
    Let(Player_can_dodge(p, r), LAMBDA d :
        IF d.success
        THEN [player |-> d.player, dodged |-> TRUE, defeated |-> FALSE,
              damage |-> 0, is_crit |-> FALSE]
        ELSE Let(Enemy_calculate_damage(e, damage, r), LAMBDA c :
             Let(Player_take_damage([d.player EXCEPT !.dodged_last_attack = FALSE], c.damage),
                 LAMBDA t :
                 [player |-> t.player, dodged |-> FALSE, defeated |-> t.escaped,
                  damage |-> c.damage, is_crit |-> c.is_crit])))

\* the rolls an attack draws when the defender's luck is defender_luck and
\* the attacker's is attacker_luck: a luck draw and a second roll are made
\* only with luck > 0, and the rolls not made are fixed
RollsFor(defender_luck, attacker_luck) ==
    {r \in RollSets : /\ (defender_luck <= 0 => r.dl = 1 /\ r.d2 = 1)
                      /\ (attacker_luck <= 0 => r.cl = 1 /\ r.c2 = 1)}

\* 1 when an enemy has luck, else 0
EnemyLuck(enemies) ==
    IF \E i \in 1..Len(enemies) : enemies[i].luck > 0 THEN 1 ELSE 0

\* the roll sets of n attacks of the player on the enemies
PlayerRolls(n, p, enemies) == [1..n -> RollsFor(EnemyLuck(enemies), p.luck)]

\* ------------------------------------------------------------------------
\* Combat._cast_spell
\* ------------------------------------------------------------------------

\* damage_multipliers, in tenths
damage_multiplier(effect) ==
    CASE effect = "bolt" -> 7 [] effect = "fireball" -> 10 [] effect = "rapid_bolts" -> 8
      [] effect = "beam" -> 20 [] effect = "meteor" -> 50 [] effect = "incinerate" -> 12
      [] effect = "lightning_strike" -> 13 [] effect = "ice_shard" -> 11
      [] effect = "arcane_missiles" -> 5 [] effect = "chain_lightning" -> 15
      [] effect = "inferno" -> 25 [] effect = "frost_nova" -> 18
      [] effect = "arcane_barrage" -> 30 [] effect = "flame_burst" -> 10
      [] effect = "thunderbolt" -> 20 [] OTHER -> 10

SingleTargetSpells == {"bolt", "fireball", "lightning_strike", "ice_shard", "thunderbolt",
                       "arcane_barrage"}
AreaSpells == {"chain_lightning", "inferno", "frost_nova", "flame_burst"}

\* what a part of combat that attacks the enemies leaves: the player, the
\* enemies, the damage summed, and the numbers of attacks made and dodged
no_attack(p, enemies) ==
    [player |-> p, enemies |-> enemies, total_damage |-> 0, attacks |-> 0, dodges |-> 0]

\* one _perform_attack on the front enemy and the defeat handling that
\* follows it: monsters_killed, gain_bounty, enemies.pop(0)
strike_front(p, enemies, damage, r) ==
    Let(attack_enemy(p, enemies[1], damage, r), LAMBDA a :
        [player |-> IF a.defeated THEN count_kill(a.player) ELSE a.player,
         enemies |-> IF a.defeated THEN Tail(enemies) ELSE <<a.enemy>> \o Tail(enemies),
         total_damage |-> a.damage, attacks |-> 1, dodges |-> IF a.dodged THEN 1 ELSE 0])

\* the sum of two such results, the player and enemies being those of the later
after(first, rest) ==
    [rest EXCEPT !.total_damage = @ + first.total_damage,
                 !.attacks = @ + first.attacks, !.dodges = @ + first.dodges]

RECURSIVE strike_front_n(_, _, _, _, _)
\* for i in range(n): if not enemies: break; attack enemies[0] ...
strike_front_n(p, enemies, damage, rs, n) ==
    IF n = 0 \/ enemies = <<>>
    THEN no_attack(p, enemies)
    ELSE Let(strike_front(p, enemies, damage, Head(rs)), LAMBDA a :
             after(a, strike_front_n(a.player, a.enemies, damage, Tail(rs), n - 1)))

RECURSIVE strike_all(_, _, _, _, _)
\* for target in enemies[:]: attack it, enemies.remove(target) when defeated.
\* todo is what is left of the copy, kept the enemies that stay in the list
strike_all(p, todo, kept, damage, rs) ==
    IF todo = <<>>
    THEN no_attack(p, kept)
    ELSE Let(strike_front(p, <<Head(todo)>>, damage, Head(rs)), LAMBDA a :
             after(a, strike_all(a.player, Tail(todo), kept \o a.enemies, damage, Tail(rs))))

\* the number of _perform_attack calls a cast of `effect` can make
spell_attacks(p, effect, enemies) ==
    CASE effect \in SingleTargetSpells -> 1
      [] effect = "rapid_bolts" -> 3
      [] effect = "arcane_missiles" -> 5
      [] effect = "beam" -> 1
      [] effect = "meteor" -> IF p.has["quick_meteor"] THEN Len(enemies) ELSE 0
      [] effect = "incinerate" -> 1
      [] effect \in AreaSpells -> Len(enemies)
      [] OTHER -> 0

\* the mana check of _cast_spell: the player after paying, and whether the
\* spell is cast at all
\* the payment without the test of the HP that is left
pay_mana_unguarded(p, mana_cost) ==
    IF mana_cost > p.current_mana
    THEN IF p.asc["Blood Magic"]
         THEN [player |-> [p EXCEPT !.current_mana = 0,
                                    !.current_hp = @ - (mana_cost - p.current_mana)],
               paid |-> TRUE]
         ELSE [player |-> p, paid |-> FALSE]
    ELSE [player |-> [p EXCEPT !.current_mana = @ - mana_cost], paid |-> TRUE]

pay_mana(p, mana_cost) ==
    IF mana_cost > p.current_mana
    THEN IF p.asc["Blood Magic"] /\ p.current_hp > 1
              /\ p.current_hp - (mana_cost - p.current_mana) > 1
         THEN [player |-> [p EXCEPT !.current_mana = 0,
                                    !.current_hp = @ - (mana_cost - p.current_mana)],
               paid |-> TRUE]
         ELSE [player |-> p, paid |-> FALSE]
    ELSE [player |-> [p EXCEPT !.current_mana = @ - mana_cost], paid |-> TRUE]

\* the Beam branch: the channel is set up for 3 turns
start_beam(p, spell, base_damage) ==
    [p EXCEPT !.channeling_spell = spell,
              !.channeling_turns_remaining = 3,
              !.channeling_damage = base_damage]

\* the Meteor branch with a wind-up one turn longer
start_meteor_slow(p, base_damage) ==
    [p EXCEPT !.meteor_channeling = TRUE,
              !.meteor_channeling_turns = 3,
              !.meteor_damage = base_damage]

\* the Meteor branch without Quick Meteor: the wind-up is set up for 2 turns
start_meteor(p, base_damage) ==
    [p EXCEPT !.meteor_channeling = TRUE,
              !.meteor_channeling_turns = 2,
              !.meteor_damage = base_damage]

\* the Incinerate branch: the DoT is added whether or not the target fell
add_dot(a, base_damage) ==
    [a EXCEPT !.player.dot_effects =
                 Append(@, [name |-> "Incinerate", damage |-> base_damage,
                            turns_remaining |-> 3])]

\* "Handle special spell mechanics": the branches of _cast_spell, on the
\* player q who has paid, with base_damage = int(magic_attack * multiplier)
spell_mechanics(q, spell, effect, base_damage, enemies, rs) ==
    CASE effect \in SingleTargetSpells ->
            IF enemies # <<>> THEN strike_front(q, enemies, base_damage, rs[1])
            ELSE no_attack(q, enemies)
      [] effect = "rapid_bolts" -> strike_front_n(q, enemies, base_damage, rs, 3)
      [] effect = "arcane_missiles" -> strike_front_n(q, enemies, base_damage, rs, 5)
      [] effect = "beam" ->
            IF enemies # <<>>
            THEN strike_front(start_beam(q, spell, base_damage), enemies, base_damage, rs[1])
            ELSE no_attack(start_beam(q, spell, base_damage), enemies)
      [] effect = "meteor" ->
            IF q.has["quick_meteor"]
            THEN strike_all(q, enemies, <<>>, q.magic_attack * 2, rs)
            ELSE no_attack(start_meteor(q, base_damage), enemies)
      [] effect = "incinerate" ->
            IF enemies # <<>>
            THEN add_dot(strike_front(q, enemies, base_damage, rs[1]), base_damage)
            ELSE no_attack(q, enemies)
      [] effect \in AreaSpells -> strike_all(q, enemies, <<>>, base_damage, rs)
      [] OTHER -> no_attack(q, enemies)

\* the result of a cast: that of its attacks, and whether the mana was paid
cast_result(done, paid) ==
    [player |-> done.player, enemies |-> done.enemies, total_damage |-> done.total_damage,
     attacks |-> done.attacks, dodges |-> done.dodges, paid |-> paid]

\* Combat._cast_spell(player, spell, enemies) with spell.mana_cost = mana_cost
\* and the roll sets rs of its attacks
cast_spell(p, spell, mana_cost, enemies, rs) ==
    Let(pay_mana(p, mana_cost), LAMBDA m :
        IF m.paid
        THEN cast_result(spell_mechanics(m.player, spell, Card(spell).special_effect,
                            IntDiv(p.magic_attack
                                   * damage_multiplier(Card(spell).special_effect), 10),
                            enemies, rs),
                         TRUE)
        ELSE cast_result(no_attack(p, enemies), FALSE))

\* ------------------------------------------------------------------------
\* Combat._process_channeling_and_dots, in its three parts
\* ------------------------------------------------------------------------

\* the end of the Beam part: "End channeling if done"
end_beam(a) ==
    [player |-> IF a.player.channeling_turns_remaining = 0
                THEN [a.player EXCEPT !.channeling_spell = "None"] ELSE a.player,
     enemies |-> a.enemies, processed |-> TRUE, attacks |-> a.attacks]

\* "Process Beam channeling": the channel's attack of this turn
process_beam(p, enemies, rs) ==
    IF p.channeling_spell # "None" /\ p.channeling_turns_remaining > 0
    THEN IF enemies # <<>>
         THEN end_beam(strike_front([p EXCEPT !.channeling_turns_remaining = @ - 1],
                                    enemies, p.channeling_damage, rs[1]))
         ELSE end_beam(no_attack([p EXCEPT !.channeling_turns_remaining = @ - 1], enemies))
    ELSE [player |-> p, enemies |-> enemies, processed |-> FALSE, attacks |-> 0]

\* the end of the Meteor impact: the wind-up is over
end_meteor(a) ==
    [player |-> [a.player EXCEPT !.meteor_channeling = FALSE, !.meteor_damage = 0],
     enemies |-> a.enemies, processed |-> TRUE, impact |-> TRUE, attacks |-> a.attacks]

\* "Process Meteor channeling": the wind-up step and, at 0, the impact
process_meteor(p, enemies, rs) ==
    IF p.meteor_channeling
    THEN IF p.meteor_channeling_turns - 1 = 0
         THEN end_meteor(strike_all([p EXCEPT !.meteor_channeling_turns = @ - 1],
                                    enemies, <<>>, p.meteor_damage, rs))
         ELSE [player |-> [p EXCEPT !.meteor_channeling_turns = @ - 1],
               enemies |-> enemies, processed |-> TRUE, impact |-> FALSE, attacks |-> 0]
    ELSE [player |-> p, enemies |-> enemies, processed |-> FALSE, impact |-> FALSE,
          attacks |-> 0]

RECURSIVE process_dots(_, _, _, _, _)
\* "Process DoT effects": for dot in player.dot_effects[:]. todo is what is
\* left of the copy, kept the effects that stay in player.dot_effects
process_dots(p, enemies, todo, kept, rs) ==
    IF todo = <<>>
    THEN [player |-> [p EXCEPT !.dot_effects = kept], enemies |-> enemies]
    ELSE Let(IF enemies # <<>> THEN strike_front(p, enemies, Head(todo).damage, Head(rs))
             ELSE no_attack(p, enemies),
             LAMBDA a :
             process_dots(a.player, a.enemies, Tail(todo),
                          IF Head(todo).turns_remaining - 1 = 0 THEN kept
                          ELSE Append(kept, [Head(todo) EXCEPT !.turns_remaining = @ - 1]),
                          Tail(rs)))

\* ------------------------------------------------------------------------
\* Combat.battle: the parts of one turn
\* ------------------------------------------------------------------------

\* "Barrier: Initialize shield at battle start"
battle_start(p) ==
    IF p.has["barrier"]
    THEN IF p.has["barrier_permanence"]
         THEN [p EXCEPT !.shield = Min(p.shield + IntDiv(p.magic_attack, 2), p.max_hp * 2)]
         ELSE [p EXCEPT !.shield = IntDiv(p.magic_attack, 2)]
    ELSE p

\* whether the Arcane Battery auto-cast calls _cast_spell this turn
battery_casts(p) ==
    /\ p.has["arcane_battery"] /\ p.battery_spell # "None"
    /\ p.battery_turn_counter + 1 >= 2
    /\ Card(p.battery_spell).special_effect \notin {"beam", "meteor"}
    /\ p.current_mana >= Card(p.battery_spell).mana_cost * 2

\* the player and the enemies of a result
player_and_enemies(c) == [player |-> c.player, enemies |-> c.enemies]

\* "Arcane Battery: Auto-cast battery spell every 2 turns"
arcane_battery(p, enemies, rs) ==
    IF p.has["arcane_battery"] /\ p.battery_spell # "None"
    THEN IF battery_casts(p)
         THEN player_and_enemies(
                  cast_spell([p EXCEPT !.battery_turn_counter = 0], p.battery_spell,
                             Card(p.battery_spell).mana_cost * 2, enemies, rs))
         ELSE [player |-> [p EXCEPT !.battery_turn_counter = IF @ + 1 >= 2 THEN 0 ELSE @ + 1],
               enemies |-> enemies]
    ELSE [player |-> p, enemies |-> enemies]

\* the numbers of attacks when int(speed) is left out and only the bonus
\* attack is counted
attack_counts_bonus_only(speed, unit) ==
    IF speed % unit > 0 THEN {0, 1} ELSE {0}

\* the numbers of attacks int(speed) and int(speed) + 1 that an attack speed
\* of speed / unit can give: the bonus attack is drawn with probability
\* speed % 1, so it is possible only when the fraction is positive
attack_counts(speed, unit) ==
    IF speed % unit > 0 THEN {speed \div unit, speed \div unit + 1} ELSE {speed \div unit}

\* ------------------------------------------------------------------------
\* The game as a state machine: main() with one player, and Combat.battle
\* step by step
\* ------------------------------------------------------------------------

VARIABLES
    player,     \* the Player object
    enemies,    \* the list `enemies` of the current battle
    pc,         \* where main() / Combat.battle stands
    loc,        \* the local variables of Combat.battle and `won` of main
    obs         \* observation of the last step and of the run so far

vars == <<player, enemies, pc, loc, obs>>

\* Tower.MAX_FLOORS
MAX_FLOORS == 1000

\* the loadouts prep_menu returns in the modelled runs
Decks == {<<"Reckless 4">>, <<"Impaler">>, <<"Intellect 1", "Beam">>,
          <<"Intellect 1", "Meteor">>}

\* the enemy types random.choice draws in the modelled runs
ModelledTypes == {"Skeleton", "Golem"}

\* Tower.generate_enemies(floor): the lists it can return
generate_enemies(floor) ==
    {[i \in 1..num_enemies(floor) |-> Enemy(floor, ts[i], i)] :
        ts \in [1..num_enemies(floor) -> ModelledTypes]}

\* the locals of Combat.battle when it is entered: none is bound
NoLocals ==
    [won |-> FALSE, bound |-> FALSE, target |-> 0, attack_type |-> "physical",
     damage_dealt |-> 0, defeated |-> FALSE, num_attacks |-> 0, attack_num |-> 0,
     enemy_index |-> 0, enemy_attacks |-> 0]

NoEnemy == [id |-> 0]

\* nothing observed yet
NoObs ==
    [kind |-> "none",            \* the step that led to this state
     dodged |-> FALSE,           \* whether the attack of that step was dodged
     before |-> NoEnemy,         \* the target before a physical attack, and after
     after |-> NoEnemy,
     crossed |-> FALSE,          \* the player crossed the 1-HP floor in this battle
     incoming |-> "none",        \* Outcome of the attacks on the player, this battle
     incoming_run |-> "none",    \* the same over the whole run
     beam_ticks |-> 0,           \* Beam attacks since the last Beam cast
     processed |-> FALSE,        \* a Beam tick or Meteor step was processed this turn
     meteor_age |-> -1,          \* turns begun since the pending Meteor was cast
     present |-> 0,              \* enemies present before the last Meteor step
     attacks |-> 0,              \* attacks made by the last Meteor step
     rage |-> FALSE,             \* the last step added a rage stack
     turns |-> 0,                \* turns begun in this battle
     floors |-> 0,               \* floors entered in this day's climb
     hp_before |-> 0,            \* the player's HP before the last enemy attack
     cast_attacks |-> 0,         \* attacks made by the casts of the last spell action
     hits |-> 0]                 \* physical hits that dealt damage, this action phase

\* obs after a step that is not an attack
Step(kind) == [obs EXCEPT !.kind = kind, !.dodged = FALSE, !.before = NoEnemy,
                          !.after = NoEnemy, !.rage = FALSE]

Init ==
    /\ player = Player_init
    /\ enemies = <<>>
    /\ pc = "prep"
    /\ loc = NoLocals
    /\ obs = NoObs

\* main: prep_menu returns a deck and player.equip_deck(deck) is called
Prep ==
    /\ pc = "prep"
    /\ \E deck \in Decks :
         LET e == equip_deck(player, deck)
         IN  /\ player' = e.player
             /\ pc' = IF e.raised THEN "crashed" ELSE "tower"
    /\ obs' = Step("prep")
    /\ UNCHANGED <<enemies, loc>>

\* whether `while enemies and player.is_alive` goes on
battle_continues(p, es) == es # <<>> /\ p.is_alive

\* main: the next floor is entered: current_floor, generate_enemies, and
\* Combat.battle up to its first loop test
EnterFloor ==
    /\ pc = "tower"
    /\ obs.floors < MaxFloor
    /\ \E es \in generate_enemies(player.current_floor + 1) :
         LET p == battle_start([player EXCEPT !.current_floor = @ + 1])
         IN  /\ player' = p
             /\ enemies' = es
             /\ pc' = IF battle_continues(p, es) THEN "turn" ELSE "returned"
             /\ loc' = [NoLocals EXCEPT !.won = ~battle_continues(p, es)]
    /\ obs' = [Step("enter") EXCEPT !.crossed = FALSE, !.incoming = "none", !.turns = 0,
                                    !.floors = @ + 1]

\* main: `won` is handled: gain_xp and reset_for_floor, or the escape
HandleResult ==
    /\ pc = "returned"
    /\ IF loc.won
       THEN /\ player' = reset_for_floor(gain_xp(player, player.current_floor).player)
            /\ pc' = IF player.current_floor >= MAX_FLOORS THEN "day_end" ELSE "tower"
       ELSE /\ player' = [player EXCEPT !.highest_floor = Max(@, player.current_floor)]
            /\ pc' = "day_end"
    /\ enemies' = <<>>
    /\ loc' = NoLocals
    /\ obs' = Step("result")

\* main: the day ends (highest floor, deck cleared, floor 0, day + 1) and
\* the players choose whether to go on
DayEnd ==
    /\ pc = "day_end"
    /\ player' = [player EXCEPT !.highest_floor = Max(@, player.current_floor),
                                !.deck = <<>>, !.active_cards = <<>>,
                                !.current_floor = 0, !.day = @ + 1]
    /\ \E continue_playing \in BOOLEAN :
         pc' = IF continue_playing /\ player.day < MaxDay THEN "prep" ELSE "quit"
    /\ obs' = [Step("day_end") EXCEPT !.floors = 0]
    /\ UNCHANGED <<enemies, loc>>

\* battle: a turn begins: mana regeneration and the Arcane Battery
TurnBegins ==
    /\ pc = "turn"
    /\ \E p \in {Player_regenerate_mana(player)} :
       \E es \in {[i \in 1..Len(enemies) |-> Enemy_regenerate_mana(enemies[i])]} :
       \E rs \in PlayerRolls(IF battery_casts(p)
                             THEN spell_attacks(p, Card(p.battery_spell).special_effect, es)
                             ELSE 0, p, es) :
       \E b \in {arcane_battery(p, es, rs)} :
         /\ player' = b.player
         /\ enemies' = b.enemies
    /\ pc' = "beam"
    /\ obs' = [Step("turn") EXCEPT !.processed = FALSE, !.turns = Min(@ + 1, MaxTurns),
                                   !.meteor_age = IF player.meteor_channeling THEN @ + 1 ELSE -1]
    /\ UNCHANGED loc

\* the turns of a battle that the model follows
TurnStart == obs.turns < MaxTurns /\ TurnBegins

\* battle: _process_channeling_and_dots, the Beam part
ProcessBeam ==
    /\ pc = "beam"
    /\ \E rs \in PlayerRolls(IF player.channeling_spell # "None"
                                /\ player.channeling_turns_remaining > 0
                                /\ enemies # <<>> THEN 1 ELSE 0, player, enemies) :
       \E b \in {process_beam(player, enemies, rs)} :
         /\ player' = b.player
         /\ enemies' = b.enemies
         /\ obs' = [Step(IF b.processed THEN "beam_tick" ELSE "no_beam")
                       EXCEPT !.processed = @ \/ b.processed,
                              !.beam_ticks = @ + b.attacks]
    /\ pc' = "meteor"
    /\ UNCHANGED loc

\* battle: _process_channeling_and_dots, the Meteor part
ProcessMeteor ==
    /\ pc = "meteor"
    /\ \E rs \in PlayerRolls(IF player.meteor_channeling
                                /\ player.meteor_channeling_turns - 1 = 0
                             THEN Len(enemies) ELSE 0, player, enemies) :
       \E m \in {process_meteor(player, enemies, rs)} :
         /\ player' = m.player
         /\ enemies' = m.enemies
         /\ obs' = [Step(IF m.impact THEN "meteor_impact"
                         ELSE IF m.processed THEN "meteor_step" ELSE "no_meteor")
                       EXCEPT !.processed = @ \/ m.processed,
                              !.present = Len(enemies),
                              !.attacks = m.attacks]
    /\ pc' = "dots"
    /\ UNCHANGED loc

\* battle: _process_channeling_and_dots, the DoT part
ProcessDots ==
    /\ pc = "dots"
    /\ \E rs \in PlayerRolls(Len(player.dot_effects), player, enemies) :
       \E d \in {process_dots(player, enemies, player.dot_effects, <<>>, rs)} :
         /\ player' = d.player
         /\ enemies' = d.enemies
    /\ pc' = "phase"
    /\ obs' = Step("dots")
    /\ UNCHANGED loc

\* battle: after the channels and DoTs: the win by them, the lock of a
\* channel, or the number of attacks of the player's turn
PlayerPhase ==
    /\ pc = "phase"
    /\ LET locked == player.channeling_spell # "None" \/ player.meteor_channeling
           acts == enemies # <<>> /\ ~locked
       IN  \E n \in (IF acts THEN attack_counts(get_attack_speed(player), 1000) ELSE {0}) :
             /\ pc' = IF enemies = <<>> THEN "returned"
                      ELSE IF locked THEN "enemies" ELSE "action"
             /\ loc' = IF enemies = <<>> THEN [loc EXCEPT !.won = TRUE]
                       ELSE IF locked THEN [loc EXCEPT !.enemy_index = 0]
                       ELSE [loc EXCEPT !.num_attacks = n, !.attack_num = 0]
    /\ player' = IF enemies = <<>> THEN [player EXCEPT !.floors_cleared = @ + 1] ELSE player
    /\ obs' = Step("phase")
    /\ UNCHANGED enemies

\* the spell the player's action casts: the equipped one, or the fallback Bolt
spell_to_cast(p) ==
    IF p.equipped_spell # "None" THEN p.equipped_spell
    ELSE IF can_cast_spells(p) /\ p.magic_attack > 0 THEN "Bolt" ELSE "None"

\* `defeated` after a cast
front_defeated(es) == es = <<>> \/ es[1].current_hp <= 0

\* what one cast tells the observer
cast_note(spell, c) == [spell |-> spell, paid |-> c.paid, attacks |-> c.attacks]

\* the result of the spell branch after its last cast
spell_done(c, damage_before, notes) ==
    [player |-> c.player, enemies |-> c.enemies,
     damage_dealt |-> damage_before + c.total_damage,
     defeated |-> front_defeated(c.enemies),
     casts |-> notes]

\* the spell branch of an action, Dual Cast included; n1 is the number of
\* rolls of the first cast
spell_action(p, es, rs, n1) ==
    Let(cast_spell(p, spell_to_cast(p), Card(spell_to_cast(p)).mana_cost, es,
                   SubSeq(rs, 1, n1)),
        LAMBDA c1 :
        IF p.has["dual_cast"] /\ p.equipped_spell_2 # "None" /\ ~front_defeated(c1.enemies)
        THEN Let(cast_spell(c1.player, p.equipped_spell_2,
                            Card(p.equipped_spell_2).mana_cost, c1.enemies,
                            SubSeq(rs, n1 + 1, Len(rs))),
                 LAMBDA c2 :
                 spell_done(c2, c1.total_damage,
                            <<cast_note(spell_to_cast(p), c1),
                              cast_note(p.equipped_spell_2, c2)>>))
        ELSE spell_done(c1, 0, <<cast_note(spell_to_cast(p), c1)>>))

\* the rolls a spell action can need
spell_action_attacks(p, es) ==
    spell_attacks(p, Card(spell_to_cast(p)).special_effect, es)
    + (IF p.has["dual_cast"] /\ p.equipped_spell_2 # "None"
       THEN spell_attacks(p, Card(p.equipped_spell_2).special_effect, es) ELSE 0)

\* "Check for Impale from previous crit": the bonus damage of this attack
impale_damage(p, target, damage) ==
    IF p.asc["Impaler"] /\ target.impaled THEN IntDiv(damage * 7, 10) ELSE 0

\* the target after the Impale mark was consumed
consume_impale(p, target) ==
    IF p.asc["Impaler"] /\ target.impaled THEN [target EXCEPT !.impaled = FALSE] ELSE target

\* damage dealt to the target past its defense, outside _perform_attack
bonus_hit(t, damage) ==
    Let(t.enemy.current_hp - Max(1, damage - t.enemy.defense), LAMBDA hp :
        [enemy |-> [t.enemy EXCEPT !.current_hp = hp], defeated |-> hp <= 0])

\* "Apply impale damage if the enemy survived the main hit"
apply_impale(a, bonus) ==
    IF bonus > 0 /\ ~a.defeated THEN bonus_hit(a, bonus)
    ELSE [enemy |-> a.enemy, defeated |-> a.defeated]

\* the marks set on a target that is not defeated: Impale on a crit, Impale
\* by the Impaler weapon, the stun of Ogre's Sword
apply_marks(p, t, is_crit, weapon, stun) ==
    IF t.defeated THEN t
    ELSE [t EXCEPT !.enemy.impaled = @ \/ (p.asc["Impaler"] /\ is_crit)
                                       \/ (weapon /\ p.has["impaler_weapon"]),
                   !.enemy.stunned = @ \/ (weapon /\ p.has["ogres_sword"] /\ stun)]

\* "Spellblade: Add 50% of physical damage as magic damage"
apply_spellblade(p, t, damage_dealt, weapon) ==
    IF weapon /\ p.has["spellblade"] /\ damage_dealt > 0 /\ ~t.defeated
    THEN bonus_hit(t, IntDiv(damage_dealt, 2))
    ELSE t

\* the result of a weapon or Mana Amplifier attack
strike_result(a, t) ==
    [player |-> a.player, enemy |-> t.enemy, dodged |-> a.dodged,
     defeated |-> t.defeated, damage_dealt |-> a.damage]

\* a weapon or Mana Amplifier attack on `target`: the Impale bonus, the
\* attack, and what the code does after it. weapon is TRUE in the "normal
\* attack" branch, which alone has the Impaler weapon, Ogre's Sword and
\* Spellblade parts; stun is the outcome of random.random() < 0.10
strike(p, target, damage, weapon, r, stun) ==
    Let(attack_enemy(p, consume_impale(p, target), damage, r), LAMBDA a :
    Let(apply_impale(a, impale_damage(p, target, damage)), LAMBDA i :
    Let(apply_marks(p, i, a.is_crit, weapon, stun), LAMBDA m :
    Let(apply_spellblade(p, m, a.damage, weapon), LAMBDA t :
        strike_result(a, t)))))

\* the Mana Amplifier branch: the player after paying, or the `continue`
amplifier_pay(p) ==
    IF p.current_mana >= IntDiv(p.max_mana, 2)
    THEN [player |-> [p EXCEPT !.current_mana = @ - IntDiv(p.max_mana, 2)], paid |-> TRUE]
    ELSE IF p.asc["Blood Magic"] /\ p.current_hp > 1
            /\ p.current_hp - (IntDiv(p.max_mana, 2) - p.current_mana) > 1
         THEN [player |-> [p EXCEPT !.current_mana = 0,
                                    !.current_hp = @ - (IntDiv(p.max_mana, 2) - p.current_mana)],
               paid |-> TRUE]
         ELSE [player |-> p, paid |-> FALSE]

\* which branch an iteration of `for attack_num in range(num_attacks)` takes
action_branch(p, target) ==
    IF p.asc["Finishing Strike"] /\ target.current_hp * 10 <= target.max_hp THEN "finish"
    ELSE IF spell_to_cast(p) # "None" /\ p.magic_attack > 0 THEN "spell"
    ELSE IF p.has["mana_amplifier"] THEN "amplifier"
    ELSE "weapon"

\* the rolls of one iteration
action_attacks(p, es) ==
    CASE action_branch(p, es[1]) = "finish" -> 0
      [] action_branch(p, es[1]) = "spell" -> spell_action_attacks(p, es)
      [] OTHER -> 1

\* the locals at the top of an iteration: "Initialize variables"
iteration(l, target) ==
    [l EXCEPT !.bound = TRUE, !.target = target.id, !.attack_type = "physical",
              !.defeated = FALSE, !.damage_dealt = 0, !.attack_num = @ + 1]

\* the iteration's result after the spell branch
spell_branch(c, l0) ==
    [player |-> c.player, enemies |-> c.enemies,
     loc |-> [l0 EXCEPT !.attack_type = "magic", !.defeated = c.defeated,
                        !.damage_dealt = c.damage_dealt],
     kind |-> "spell", dodged |-> FALSE, casts |-> c.casts]

\* the iteration's result after a weapon or Mana Amplifier attack
strike_branch(k, es, l0, attack_type) ==
    [player |-> k.player, enemies |-> <<k.enemy>> \o Tail(es),
     loc |-> [l0 EXCEPT !.attack_type = attack_type, !.defeated = k.defeated,
                        !.damage_dealt = k.damage_dealt],
     kind |-> attack_type, dodged |-> k.dodged, casts |-> <<>>]

\* one iteration of `for attack_num in range(num_attacks)`: the player, the
\* enemies and the locals after it
player_action(p, es, l, rs, stun) ==
    CASE action_branch(p, es[1]) = "finish" ->
           [player |-> p,
            enemies |-> <<[es[1] EXCEPT !.current_hp = 0]>> \o Tail(es),
            loc |-> [iteration(l, es[1]) EXCEPT !.defeated = TRUE],
            kind |-> "finish", dodged |-> FALSE, casts |-> <<>>]
      [] action_branch(p, es[1]) = "spell" ->
           Let(spell_action(p, es, rs,
                            spell_attacks(p, Card(spell_to_cast(p)).special_effect, es)),
               LAMBDA c : spell_branch(c, iteration(l, es[1])))
      [] action_branch(p, es[1]) = "amplifier" ->
           Let(amplifier_pay(p), LAMBDA m :
               IF m.paid
               THEN Let(strike(m.player, es[1], p.magic_attack * 3, FALSE, rs[1], stun),
                        LAMBDA k : strike_branch(k, es, iteration(l, es[1]), "magic"))
               ELSE [player |-> p, enemies |-> es, loc |-> iteration(l, es[1]),
                     kind |-> "skipped", dodged |-> FALSE, casts |-> <<>>])
      [] OTHER ->
           Let(strike(p, es[1], get_weapon_damage(p), TRUE, rs[1], stun), LAMBDA k :
               strike_branch(k, es, iteration(l, es[1]), "physical"))

RECURSIVE beam_count(_, _)
\* Beam attacks since the last Beam cast, after the casts of an action
beam_count(ticks, casts) ==
    IF casts = <<>> THEN ticks
    ELSE beam_count(IF Head(casts).paid /\ Card(Head(casts).spell).special_effect = "beam"
                    THEN Head(casts).attacks ELSE ticks,
                    Tail(casts))

RECURSIVE cast_attacks(_)
\* the attacks made by the casts of an action
cast_attacks(casts) ==
    IF casts = <<>> THEN 0 ELSE Head(casts).attacks + cast_attacks(Tail(casts))

\* whether one of the casts of an action began a Meteor wind-up
meteor_begun(p, casts) ==
    \E i \in 1..Len(casts) :
        /\ casts[i].paid
        /\ Card(casts[i].spell).special_effect = "meteor"
        /\ ~p.has["quick_meteor"]

\* battle: one iteration of the player's attack loop
PlayerAction ==
    /\ pc = "action"
    /\ loc.attack_num < loc.num_attacks
    /\ enemies # <<>>
    /\ \E rs \in PlayerRolls(action_attacks(player, enemies), player, enemies) :
       \E stun \in (IF action_branch(player, enemies[1]) = "weapon" /\ player.has["ogres_sword"]
                    THEN BOOLEAN ELSE {FALSE}) :
       \E a \in {player_action(player, enemies, loc, rs, stun)} :
         /\ player' = a.player
         /\ enemies' = a.enemies
         /\ loc' = a.loc
         /\ obs' = [obs EXCEPT !.kind = a.kind, !.dodged = a.dodged,
                               !.before = IF a.kind = "physical" THEN enemies[1] ELSE NoEnemy,
                               !.after = IF a.kind = "physical" THEN a.enemies[1] ELSE NoEnemy,
                               !.rage = FALSE,
                               !.hits = IF a.kind = "physical" /\ a.loc.damage_dealt > 0
                                        THEN @ + 1 ELSE @,
                               !.beam_ticks = beam_count(@, a.casts),
                               !.cast_attacks = cast_attacks(a.casts),
                               !.meteor_age = IF meteor_begun(player, a.casts) THEN 0 ELSE @]
    /\ pc' = "action"

\* the rage gained without the test against the cap of 50 stacks
gain_rage_uncapped(p, l) ==
    [p EXCEPT !.rage_stacks =
                 IF p.has["berserkers_rage"] /\ l.attack_type = "physical"
                    /\ l.damage_dealt > 0 THEN @ + 1 ELSE @,
              !.ancestral_rage_stacks =
                 IF p.asc["Ancestral Rage"] /\ l.attack_type = "physical"
                    /\ l.damage_dealt > 0 THEN @ + 1 ELSE @]

\* the rage gained after the attack loop, from the locals it left
gain_rage(p, l) ==
    [p EXCEPT !.rage_stacks =
                 IF p.has["berserkers_rage"] /\ l.attack_type = "physical"
                    /\ l.damage_dealt > 0 /\ @ < 50 THEN @ + 1 ELSE @,
              !.ancestral_rage_stacks =
                 IF p.asc["Ancestral Rage"] /\ l.attack_type = "physical"
                    /\ l.damage_dealt > 0 /\ @ < 50 THEN @ + 1 ELSE @]

\* whether the code after the attack loop reads a local that is not bound
reads_unbound(l) == ~l.bound

\* whether the code after the attack loop pops the front enemy
target_pops(l, es) == l.defeated /\ es # <<>> /\ es[1].id = l.target

\* the enemies after the attack loop
after_actions(l, es) == IF target_pops(l, es) THEN Tail(es) ELSE es

\* battle: the attack loop is over: rage, and the defeat of the target
AfterActions ==
    /\ pc = "action"
    /\ loc.attack_num >= loc.num_attacks \/ enemies = <<>>
    /\ IF reads_unbound(loc)
       THEN /\ pc' = "crashed"
            /\ UNCHANGED <<player, enemies, loc>>
            /\ obs' = Step("after")
       ELSE \E p1 \in {gain_rage(player, loc)} :
            \E es \in {after_actions(loc, enemies)} :
            \E p2 \in {IF target_pops(loc, enemies) THEN count_kill(p1) ELSE p1} :
            \E wins \in {loc.defeated /\ es = <<>>} :
              /\ player' = IF wins THEN [p2 EXCEPT !.floors_cleared = @ + 1] ELSE p2
              /\ enemies' = es
              /\ pc' = IF wins THEN "returned" ELSE "enemies"
              /\ loc' = IF wins THEN [loc EXCEPT !.won = TRUE]
                        ELSE [loc EXCEPT !.enemy_index = 0]
              /\ obs' = [Step("after") EXCEPT
                            !.dodged = obs.dodged,
                            !.hits = 0,
                            !.rage = p1.rage_stacks # player.rage_stacks
                                     \/ p1.ancestral_rage_stacks # player.ancestral_rage_stacks]

\* battle: `for enemy in enemies[:]` goes to its next enemy: a stunned one
\* loses the stun and its turn, another gets its number of attacks; after
\* the last one the loop test of the battle is made
EnemyBegin ==
    /\ pc = "enemies"
    /\ loc.enemy_attacks = 0
    /\ LET i == loc.enemy_index + 1
       IN  IF i > Len(enemies)
           THEN /\ pc' = IF battle_continues(player, enemies) THEN "turn" ELSE "returned"
                /\ loc' = [loc EXCEPT !.won = ~battle_continues(player, enemies)]
                /\ UNCHANGED enemies
           ELSE /\ pc' = "enemies"
                /\ \E n \in (IF enemies[i].stunned THEN {0}
                             ELSE attack_counts(enemies[i].attack_speed, 100000)) :
                      loc' = [loc EXCEPT !.enemy_index = i, !.enemy_attacks = n,
                                         !.num_attacks = IF enemies[i].stunned THEN @ ELSE n]
                /\ enemies' = [enemies EXCEPT ![i].stunned = FALSE]
    /\ obs' = Step("enemy")
    /\ UNCHANGED player

\* whether the enemy casts: "Decide between physical and magic attack"
use_magic(e) == e.magic_attack > 0 /\ e.current_mana >= 20 /\ e.magic_attack > e.attack

\* battle: one attack of the current enemy on the player
EnemyAttack ==
    /\ pc = "enemies"
    /\ loc.enemy_attacks > 0
    /\ \E e \in {enemies[loc.enemy_index]} :
       \E r \in RollsFor(player.luck, e.luck) :
       \E a \in {attack_player(e, player, IF use_magic(e) THEN e.magic_attack ELSE e.attack, r)} :
         /\ player' = a.player
         /\ enemies' = [enemies EXCEPT ![loc.enemy_index].current_mana =
                                          IF use_magic(e) THEN @ - 20 ELSE @]
         /\ pc' = IF a.defeated THEN "returned" ELSE "enemies"
         /\ loc' = [loc EXCEPT !.bound = TRUE,
                               !.attack_type = IF use_magic(e) THEN "magic" ELSE "physical",
                               !.defeated = a.defeated,
                               !.damage_dealt = a.damage,
                               !.attack_num = loc.num_attacks - loc.enemy_attacks,
                               !.enemy_attacks = IF a.defeated THEN 0 ELSE @ - 1,
                               !.won = FALSE]
         /\ obs' = [Step("enemy_attack") EXCEPT
                       !.dodged = a.dodged,
                       !.hp_before = player.current_hp,
                       !.crossed = @ \/ a.defeated,
                       !.incoming = Outcome(@, a.dodged),
                       !.incoming_run = Outcome(@, a.dodged)]

Next ==
    \/ Prep
    \/ EnterFloor
    \/ TurnStart
    \/ ProcessBeam
    \/ ProcessMeteor
    \/ ProcessDots
    \/ PlayerPhase
    \/ PlayerAction
    \/ AfterActions
    \/ EnemyBegin
    \/ EnemyAttack
    \/ HandleResult
    \/ DayEnd

Spec == Init /\ [][Next]_vars

\* ------------------------------------------------------------------------
\* Properties of the run: the battle's result, the escape threshold, dodges
\* ------------------------------------------------------------------------

\* whether main is about to handle the value Combat.battle returned
battle_returned == pc = "returned"

\* C1: Combat.battle returns True only when every enemy has been removed
\* from the enemy list, and False only when the player crossed the 1-HP
\* floor during that battle, in every battle of a run over several floors
\* and days, the battles after an escape on an earlier day included.
C1_ResultMatchesBattle ==
    battle_returned =>
        /\ (loc.won => enemies = <<>>)
        /\ (~loc.won => obs.crossed)

\* the HP a hit of an enemy on a player without Barrier or Reactive Armor
\* was computed to leave
hp_computed == obs.hp_before - Max(1, loc.damage_dealt - player.defense)

\* whether the last step was a hit of an enemy that landed on such a player
enemy_hit_landed ==
    /\ obs.kind = "enemy_attack"
    /\ ~obs.dodged
    /\ ~player.has["barrier"]
    /\ ~player.has["reactive_armor"]

\* C2: a hit that would take the player's HP to 1 or below leaves it at
\* exactly 1 and marks the player escaped (is_alive false, escaped_floor the
\* current floor), and a hit that would not leaves the HP it computed; the
\* player's HP is 0 or negative in no reachable state.
C2_EscapeThreshold ==
    /\ player.current_hp >= 1
    /\ (enemy_hit_landed /\ hp_computed <= 1) =>
          /\ player.current_hp = 1
          /\ ~player.is_alive
          /\ player.escaped_floor = player.current_floor
    /\ (enemy_hit_landed /\ hp_computed > 1) => player.current_hp = hp_computed

\* a hit computed to take the player's HP below 1 has landed
C2_HitBelowOne ==
    /\ enemy_hit_landed
    /\ hp_computed < 1
    /\ player.current_hp = 1
    /\ ~player.is_alive

\* whether some enemy dodged its last two incoming hits
enemy_dodged_twice == \E i \in 1..Len(enemies) : enemies[i].incoming = "twice"

\* C3 as stated: no combatant dodges two consecutive incoming hits, in any
\* sequence of hits, those that continue from one floor into the next
\* included.
C3_NeverTwiceInARun == obs.incoming_run # "twice" /\ ~enemy_dodged_twice

\* C3 amended: within one battle, no combatant dodges two consecutive
\* incoming hits (reset_for_floor clears the dodge flag between floors, so
\* the last hit of one floor and the first of the next may both be dodged).
C3_NeverTwiceInABattle == obs.incoming # "twice" /\ ~enemy_dodged_twice

\* in one battle the player dodged a hit and the next hit landed, and so did
\* an enemy
C3_HitAfterDodge ==
    /\ obs.kind = "enemy_attack"
    /\ obs.incoming = "hit_after_dodge"
    /\ \E i \in 1..Len(enemies) : enemies[i].incoming = "hit_after_dodge"

\* ------------------------------------------------------------------------
\* Properties of the player's attacks and channels
\* ------------------------------------------------------------------------

\* whether the last step was a physical attack of the player that its
\* target dodged
physical_dodged == obs.kind = "physical" /\ obs.dodged

\* C7: an attack of the player that its target dodges has no effect on the
\* target: its HP is unchanged, it gets no Impale mark and no stun, its
\* dodge flag is set, and the player gains no rage from it.
C7_DodgeNegatesAll ==
    /\ physical_dodged =>
          /\ obs.after.current_hp = obs.before.current_hp
          /\ (obs.after.impaled => obs.before.impaled)
          /\ (obs.after.stunned => obs.before.stunned)
          /\ obs.after.dodged_last_attack
    /\ (obs.kind = "after" /\ obs.rage) => ~obs.dodged

\* C8: a Beam cast makes three attacks in all, on the casting turn and on
\* the two turns after it, and the channel has ended after the third.
C8_BeamThreeTicks ==
    /\ obs.beam_ticks <= 3
    /\ (obs.kind = "beam_tick" /\ obs.beam_ticks = 3) => player.channeling_spell = "None"

\* whether the last step was an iteration of the player's attack loop
player_acted == obs.kind \in {"finish", "spell", "skipped", "magic", "physical"}

\* C9: in a turn in which a Beam tick or a Meteor wind-up step was processed
\* at the start of the turn the player's attack loop is not run, the turn of
\* the last tick included.
C9_LockedWhileProcessed == player_acted => ~obs.processed


\* ------------------------------------------------------------------------
\* Combat.battle entered on a floor with several enemies
\* ------------------------------------------------------------------------

\* the floor of the arena battles: the first with two enemies
ArenaFloor == 100

\* the loadouts of the arena battles
ArenaDecks == {<<"Intellect 1", "Meteor">>, <<"Intellect 1", "Meteor", "Quick Meteor">>,
               <<"Impaler">>, <<"Sword", "Greatsword", "Axe">>}

\* main has equipped a deck and enters floor ArenaFloor: Combat.battle stands
\* at its first loop test
InitArena ==
    /\ \E deck \in ArenaDecks :
         player = battle_start([equip_deck(Player_init, deck).player
                                   EXCEPT !.current_floor = ArenaFloor])
    /\ enemies \in generate_enemies(ArenaFloor)
    /\ pc = "turn"
    /\ loc = NoLocals
    /\ obs = NoObs

NextArena ==
    \/ TurnStart
    \/ ProcessBeam
    \/ ProcessMeteor
    \/ ProcessDots
    \/ PlayerPhase
    \/ PlayerAction
    \/ AfterActions
    \/ EnemyBegin
    \/ EnemyAttack

SpecArena == InitArena /\ [][NextArena]_vars

\* C10: a Meteor cast without Quick Meteor makes no attack on the casting
\* turn or on the turn after it; on the second turn after the cast it makes
\* exactly one attack on every enemy present, and the wind-up state is
\* cleared (meteor_channeling false, meteor_damage 0).
C10_MeteorImpact ==
    /\ (obs.kind = "spell" /\ obs.meteor_age = 0 /\ player.meteor_channeling) =>
          obs.cast_attacks = 0
    /\ obs.kind = "meteor_step" => (obs.meteor_age = 1 /\ obs.attacks = 0)
    /\ obs.kind = "meteor_impact" =>
          /\ obs.meteor_age = 2
          /\ obs.attacks = obs.present
          /\ ~player.meteor_channeling
          /\ player.meteor_damage = 0

\* a Meteor has struck two enemies
C10_ImpactOnTwo ==
    /\ obs.kind = "meteor_impact"
    /\ obs.present = 2
    /\ obs.attacks = 2

\* ------------------------------------------------------------------------
\* The dodge and crit rolls of a player holding Lucky 7 and of an enemy with
\* luck, call after call
\* ------------------------------------------------------------------------

\* the loadouts of the players whose rolls are followed
LuckDecks == {<<"Fortune 1", "Lucky 7">>}

\* the floor of the enemy whose rolls are followed: its Goblin has luck 3
LuckFloor == 100

\* the damage whose crit is rolled
LuckDamage == 10

\* consecutive failed luck draws of one kind, after a roll of that kind: a
\* failed draw adds one, a successful draw or a guaranteed re-roll starts again
Run(run, c) ==
    IF c.guaranteed THEN 0
    ELSE IF c.luck_drawn THEN (IF c.luck_triggered THEN 0 ELSE run + 1)
    ELSE run

\* failed luck draws of one kind since the last guaranteed re-roll of that
\* kind, after a roll of that kind
Since(since, c) ==
    IF c.guaranteed THEN 0
    ELSE IF c.luck_drawn /\ ~c.luck_triggered THEN since + 1
    ELSE since

\* what is observed of a call: which call, its two rolls, whether it came to
\* roll, whether its luck draw was made and triggered the re-roll, whether
\* Lucky 7 guaranteed it, its outcome, the chance (in hundredths of a
\* percent) it was rolled against, the failure counter before and after the
\* call, Run and Since of its kind before the call, and Run and Since of
\* either kind after it
LuckObs(kind, first, second, c, success, chance, counter, counter_after, dodge) ==
    [kind |-> kind, first |-> first, second |-> second, rolled |-> c.rolled,
     guaranteed |-> c.guaranteed, luck_drawn |-> c.luck_drawn,
     luck_triggered |-> c.luck_triggered, success |-> success, chance |-> chance,
     counter |-> counter, counter_after |-> counter_after,
     run_before |-> IF dodge THEN obs.run_dodge ELSE obs.run_crit,
     since_before |-> IF dodge THEN obs.since_dodge ELSE obs.since_crit,
     run_dodge |-> IF dodge /\ c.rolled THEN Run(obs.run_dodge, c) ELSE obs.run_dodge,
     run_crit |-> IF dodge THEN obs.run_crit ELSE Run(obs.run_crit, c),
     since_dodge |-> IF dodge /\ c.rolled THEN Since(obs.since_dodge, c) ELSE obs.since_dodge,
     since_crit |-> IF dodge THEN obs.since_crit ELSE Since(obs.since_crit, c)]

\* what an enemy's call drew: enemies have no Lucky 7
EnemyDraw(e, rolled, luck_triggered) ==
    [rolled |-> rolled, guaranteed |-> FALSE, luck_drawn |-> rolled /\ e.luck > 0,
     luck_triggered |-> luck_triggered]

\* the rolls of a dodge check alone, and of a crit check alone
DodgeRolls == {r \in RollSets : r.cl = 1 /\ r.c1 = 1 /\ r.c2 = 1}

CritRolls == {r \in RollSets : r.dl = 1 /\ r.d1 = 1 /\ r.d2 = 1}

InitLuck ==
    /\ \E deck \in LuckDecks : player = equip_deck(Player_init, deck).player
    /\ enemies = <<Enemy(LuckFloor, "Goblin", 1)>>
    /\ pc = "luck"
    /\ loc = NoLocals
    /\ obs = [kind |-> "none", rolled |-> FALSE, run_dodge |-> 0, run_crit |-> 0,
              since_dodge |-> 0, since_crit |-> 0]

\* _perform_attack on the player up to the damage: can_dodge, and the
\* dodge flag cleared when the attack is not dodged
PlayerDodgeRoll ==
    /\ pc = "luck"
    /\ \E r \in DodgeRolls :
       \E d \in {Player_can_dodge(player, r)} :
         /\ player' = IF d.success THEN d.player
                      ELSE [d.player EXCEPT !.dodged_last_attack = FALSE]
         /\ obs' = LuckObs("can_dodge", r.d1, r.d2, d, d.success, player.dodge_chance * 10,
                           player.lucky_7_failed_dodge_rolls,
                           d.player.lucky_7_failed_dodge_rolls, TRUE)
    /\ UNCHANGED <<enemies, pc, loc>>

\* Player.calculate_damage
PlayerCritRoll ==
    /\ pc = "luck"
    /\ \E r \in CritRolls :
       \E c \in {Player_calculate_damage(player, LuckDamage, r)} :
         /\ player' = c.player
         /\ obs' = LuckObs("calculate_damage", r.c1, r.c2,
                           [rolled |-> TRUE, guaranteed |-> c.guaranteed,
                            luck_drawn |-> c.luck_drawn, luck_triggered |-> c.luck_triggered],
                           c.is_crit, player.crit_chance * 10,
                           player.lucky_7_failed_crit_rolls,
                           c.player.lucky_7_failed_crit_rolls, FALSE)
    /\ UNCHANGED <<enemies, pc, loc>>

\* _perform_attack on the enemy up to the damage: Enemy.can_dodge, and the
\* dodge flag cleared when the attack is not dodged
EnemyDodgeRoll ==
    /\ pc = "luck"
    /\ \E r \in DodgeRolls :
       \E d \in {Enemy_can_dodge(enemies[1], r)} :
         /\ enemies' = <<IF d.success THEN d.enemy
                         ELSE [d.enemy EXCEPT !.dodged_last_attack = FALSE]>>
         /\ obs' = [LuckObs("Enemy.can_dodge", r.d1, r.d2,
                            EnemyDraw(enemies[1], d.rolled, d.luck_triggered),
                            d.success, enemies[1].dodge_chance \div 100, 0, 0, TRUE)
                       EXCEPT !.run_dodge = obs.run_dodge, !.since_dodge = obs.since_dodge]
    /\ UNCHANGED <<player, pc, loc>>

\* Enemy.calculate_damage
EnemyCritRoll ==
    /\ pc = "luck"
    /\ \E r \in CritRolls :
       \E c \in {Enemy_calculate_damage(enemies[1], LuckDamage, r)} :
         /\ obs' = [LuckObs("Enemy.calculate_damage", r.c1, r.c2,
                            EnemyDraw(enemies[1], TRUE, c.luck_triggered),
                            c.is_crit, enemies[1].crit_chance \div 100, 0, 0, FALSE)
                       EXCEPT !.run_crit = obs.run_crit, !.since_crit = obs.since_crit]
    /\ UNCHANGED <<player, enemies, pc, loc>>

NextLuck ==
    \/ PlayerDodgeRoll
    \/ PlayerCritRoll
    \/ EnemyDodgeRoll
    \/ EnemyCritRoll

SpecLuck == InitLuck /\ [][NextLuck]_vars

\* whether the last step was a call of the player that came to roll
player_rolled == obs.kind \in {"can_dodge", "calculate_damage"} /\ obs.rolled

\* C4: for a player with Lucky 7 and luck > 0, after 7 consecutive failed
\* luck draws of one kind the next roll of that kind makes the best-of-two
\* re-roll without a luck draw, and the failure counter of that kind is 0
\* afterwards.
C4_PityGuarantee ==
    (player_rolled /\ obs.run_before = 7) =>
        /\ obs.guaranteed
        /\ obs.luck_triggered
        /\ ~obs.luck_drawn
        /\ obs.counter_after = 0

\* a roll made after 7 failed draws in a row was guaranteed, and left every
\* count at 0
C4_AfterSevenFailures ==
    /\ player_rolled
    /\ obs.run_before = 7
    /\ obs.guaranteed
    /\ obs.run_dodge = 0
    /\ obs.run_crit = 0
    /\ obs.since_dodge = 0
    /\ obs.since_crit = 0
    /\ player.lucky_7_failed_dodge_rolls = 0
    /\ player.lucky_7_failed_crit_rolls = 0

\* C5 as stated: the guaranteed re-roll is given only after 7 failed luck
\* draws of that kind in a row: a successful draw starts the count again.
C5_OnlyAfterSevenInARow ==
    (player_rolled /\ obs.guaranteed) => obs.run_before = 7

\* C5 amended: the guaranteed re-roll is given only after 7 failed luck
\* draws of that kind since the last guaranteed re-roll of that kind, in a
\* row or not: a successful draw leaves the count as it is.
C5_OnlyAfterSevenFailures ==
    /\ (player_rolled /\ obs.guaranteed) => obs.since_before = 7
    /\ (player_rolled /\ obs.luck_drawn /\ obs.luck_triggered) =>
          obs.counter_after = obs.counter

\* a guaranteed re-roll was given after failed draws that a successful draw
\* had interrupted
C5_GuaranteeAfterInterruption ==
    /\ player_rolled
    /\ obs.guaranteed
    /\ obs.since_before = 7
    /\ obs.run_before < 7

\* whether one of the two rolls of the last call is within the chance
either_roll_passes == obs.first * 100 <= obs.chance \/ obs.second * 100 <= obs.chance

\* C6: when the luck re-roll is triggered the two rolls are combined in the
\* roller's favour: the dodge succeeds, or the hit is critical, exactly when
\* at least one of the two rolls is within the chance.
C6_RerollInFavour ==
    (obs.rolled /\ obs.luck_triggered) => (obs.success <=> either_roll_passes)

\* ------------------------------------------------------------------------
\* The climb of a player who holds a unique card: channels, Reactive Armor,
\* Barrier and rage
\* ------------------------------------------------------------------------

\* the floor on which the battles of the rage players are taken up
RageFloor == 5

\* the loadouts of the players who are followed from their first floor
CampDecks == {<<"Intellect 1", "Wisdom 1", "Meteor", "Beam", "Dual Cast">>,
              <<"Reactive Armor">>,
              <<"Sword", "Intellect 1", "Barrier">>,
              <<"Sword", "Pinpoint 1", "Barrier", "Barrier Permanence">>}

\* the loadouts of the players with Berserker's Rage
RageDecks == {<<"Plate Armor", "Berserker's Rage">>,
              <<"Plate Armor", "Berserker's Rage", "Unending Rage">>}

\* the stacks a rage player holds when the battle is taken up: one below
\* the cap (a player without Unending Rage starts the next floor with none)
RageStacks == {49}

\* the players and the battles the model takes up: the loadout, the
\* ascension slots, the floor of the battle and the stacks gained so far
CampStarts ==
    {[deck |-> d, slots |-> <<>>, floor |-> 1, rage |-> 0, ancestral |-> 0] :
        d \in CampDecks}
    \cup {[deck |-> d, slots |-> <<>>, floor |-> RageFloor, rage |-> r, ancestral |-> 0] :
        d \in RageDecks, r \in RageStacks}
    \cup {[deck |-> <<"Plate Armor">>, slots |-> <<"Ancestral Rage">>, floor |-> RageFloor,
           rage |-> 0, ancestral |-> r] : r \in RageStacks}

\* the player of a start: the ascension slot is held from level 10 on, the
\* deck is equipped, the battle of the floor has begun
camp_player(s) ==
    Let(equip_deck([Player_init EXCEPT !.ascension_slots = s.slots,
                                       !.level = IF s.slots = <<>> THEN 1 ELSE 10],
                   s.deck).player,
        LAMBDA e :
        [battle_start([e EXCEPT !.current_floor = s.floor])
            EXCEPT !.rage_stacks = s.rage, !.ancestral_rage_stacks = s.ancestral])

\* Combat.battle stands at a loop test in the battle of the start's floor
InitCamp ==
    /\ \E s \in CampStarts :
         /\ player = camp_player(s)
         /\ enemies \in generate_enemies(s.floor)
    /\ pc = "turn"
    /\ loc = NoLocals
    /\ obs = [NoObs EXCEPT !.floors = 1]

\* the battle, and main's tower loop up to the end of the day
NextCamp ==
    \/ EnterFloor
    \/ TurnStart
    \/ ProcessBeam
    \/ ProcessMeteor
    \/ ProcessDots
    \/ PlayerPhase
    \/ PlayerAction
    \/ AfterActions
    \/ EnemyBegin
    \/ EnemyAttack
    \/ HandleResult

SpecCamp == InitCamp /\ [][NextCamp]_vars

\* C11: in every reachable state at most one channel is active: the player
\* is never channeling Beam (channeling_spell set) while a Meteor is winding
\* up (meteor_channeling true), whatever cards are equipped.
C11_OneChannel == ~(player.channeling_spell # "None" /\ player.meteor_channeling)

\* an attack of an enemy lands on a player with Reactive Armor and no shield
reactive_hit ==
    /\ pc = "enemies" /\ obs'.kind = "enemy_attack" /\ ~obs'.dodged
    /\ player.has["reactive_armor"] /\ player.shield = 0

\* max(1, damage - self.defense) of that hit
full_damage == Max(1, loc'.damage_dealt - player.defense)

\* the HP a hit of d leaves, with the clamp at 1
hp_after(d) == IF player.current_hp - d <= 1 THEN 1 ELSE player.current_hp - d

\* C12: with Reactive Armor, a hit taken while the flag is inactive is taken
\* in full and activates the flag; a hit taken while the flag is active is
\* halved, rounded down, and consumes the flag, which is inactive afterwards
\* so that the hit after it is taken in full again.
C12_HalvedThenFull ==
    [][reactive_hit =>
         IF player.reactive_armor_active
         THEN /\ player'.current_hp = hp_after(full_damage \div 2)
              /\ ~player'.reactive_armor_active
         ELSE /\ player'.current_hp = hp_after(full_damage)
              /\ player'.reactive_armor_active]_vars

\* C13: the player's shield is >= 0 in every reachable state: after Barrier
\* grants it at battle start, after every absorbed hit and after
\* reset_for_floor.
C13_ShieldNonNegative == player.shield >= 0

\* C14: the stacks of Berserker's Rage and of Ancestral Rage are each within
\* 0..50 in every reachable state, over the turns and floors of a climb, with
\* or without Unending Rage.
C14_RageWithinCap ==
    /\ player.rage_stacks \in 0..50
    /\ player.ancestral_rage_stacks \in 0..50

\* C14, the case: on a later floor a physical hit of a player who holds 50
\* stacks of Berserker's Rage has dealt damage and no stack was added
C14_HitAtCap ==
    /\ obs.kind = "after" /\ ~obs.rage /\ obs.floors > 1
    /\ loc.attack_type = "physical" /\ loc.damage_dealt > 0
    /\ player.has["berserkers_rage"] /\ player.rage_stacks = 50

\* ------------------------------------------------------------------------
\* equip_deck called on loadouts of every kind: the validator and the
\* aggregation of the derived stats
\* ------------------------------------------------------------------------

\* the largest number of copies of one piece of equipment in a loadout
MaxCopies == 3

\* k copies of the card n
Copies(n, k) == [i \in 1..k |-> n]

\* the equipment whose copies are tried
EquipmentNames == {"Sword", "Wand", "Shield", "Quiver", "Staff", "Dagger", "Bow",
                   "Greatsword", "Axe", "Spear", "Tome", "Ring of Power",
                   "Amulet of Vitality", "Plate Armor"}

\* the heavy two-handed weapons, which Titan's Strength lets the player dual
\* wield
HeavyNames == {"Greatsword", "Axe", "Spear"}

\* the most Tomes in one loadout
MaxTomes == 5

\* the equipment that is combined in one loadout
MixedNames == {"Sword", "Staff", "Ring of Power", "Plate Armor"}

\* loadouts of stat, spell and unique cards, and of mixed equipment
CardLoadouts == {<<"Vitality 1", "Strength 2">>, <<"Reckless 4">>, <<"Pinpoint 1">>,
                 <<"Vitality 4", "Fortune 1">>, <<"Intellect 1", "Beam">>,
                 <<"Intellect 1", "Meteor">>, <<"Impaler">>, <<"Berserker's Rage">>,
                 <<"Reactive Armor", "Staff">>, <<"Sword", "Wand">>,
                 <<"Plate Armor", "Robes">>, <<"Impaler", "Dagger">>,
                 <<"Titan's Strength", "Greatsword", "Greatsword">>}

\* the loadouts equip_deck is called with
EquipLoadouts ==
    CardLoadouts
    \cup {Copies(n, k) : n \in EquipmentNames, k \in 1..MaxCopies}
    \cup {Copies(a, j) \o Copies(b, k) : a \in MixedNames, b \in MixedNames,
                                          j \in 2..MaxCopies, k \in 2..MaxCopies}
    \cup {<<"Titan's Strength">> \o Copies(n, k) : n \in HeavyNames, k \in 1..MaxCopies}
    \cup {Copies("Tome", k) : k \in 1..MaxTomes}
    \cup {<<"Arcane Tome Wielder">> \o Copies("Tome", k) : k \in 1..MaxTomes}
    \cup {<<"Arcane Tome Wielder", "Tome", "Plate Armor">>}

\* the players before any call: a new one, and one of level 10 who holds
\* Blind Master in the ascension slot
EquipPlayers == {Player_init,
                 [Player_init EXCEPT !.level = 10, !.ascension_slots = <<"Blind Master">>]}

\* the loadouts of the call before the one that is followed
PreviousLoadouts == {<<>>, <<"Vitality 1", "Strength 2">>, <<"Intellect 1", "Beam">>,
                     <<"Reactive Armor", "Staff">>}

\* what is kept of a call of equip_deck: the loadout, the player before it,
\* whether it raised, and the violations it reported
EquipObs(kind, deck, before, e) ==
    [kind |-> kind, deck |-> deck, before |-> before, raised |-> e.raised,
     errors |-> e.errors]

\* equip_deck has been called once, with a loadout it accepts, and the
\* player stands before the next call
InitEquip ==
    /\ \E p \in EquipPlayers : \E d \in PreviousLoadouts :
         /\ player = equip_deck(p, d).player
         /\ obs = [kind |-> "none", deck |-> d, before |-> p, raised |-> FALSE,
                   errors |-> {}]
    /\ enemies = <<>>
    /\ pc = "equip"
    /\ loc = NoLocals

\* player.equip_deck(deck): the call that is followed
EquipDeck ==
    /\ pc = "equip"
    /\ obs.kind = "none"
    /\ \E deck \in EquipLoadouts :
       \E e \in {equip_deck(player, deck)} :
         /\ player' = e.player
         /\ obs' = EquipObs("equip", deck, player, e)
    /\ UNCHANGED <<enemies, pc, loc>>

\* player.equip_deck(deck) once more with the loadout that was just equipped
EquipAgain ==
    /\ pc = "equip"
    /\ obs.kind = "equip" /\ ~obs.raised
    /\ \E e \in {equip_deck(player, obs.deck)} :
         /\ player' = e.player
         /\ obs' = EquipObs("again", obs.deck, player, e)
    /\ UNCHANGED <<enemies, pc, loc>>

NextEquip ==
    \/ EquipDeck
    \/ EquipAgain

SpecEquip == InitEquip /\ [][NextEquip]_vars

\* the derived stats of a player
derived_stats(p) ==
    [max_hp |-> p.max_hp, attack |-> p.attack, defense |-> p.defense,
     magic_attack |-> p.magic_attack, max_mana |-> p.max_mana,
     mana_regen |-> p.mana_regen, crit_chance |-> p.crit_chance,
     crit_damage |-> p.crit_damage, dodge_chance |-> p.dodge_chance,
     attack_speed |-> p.attack_speed, luck |-> p.luck]

RECURSIVE delta_sum(_, _, _)
\* the sum of one delta over the cards of a loadout whose class is in classes
delta_sum(deck, field, classes) ==
    IF deck = <<>> THEN 0
    ELSE (IF Card(Head(deck)).card_class \in classes THEN Card(Head(deck))[field] ELSE 0)
         + delta_sum(Tail(deck), field, classes)

\* the card classes (CardClass)
CardClasses == {"stat", "unique", "equipment", "spell"}

\* each base value plus the sum of the stat's deltas over those cards
linear_stats(deck, classes) ==
    [max_hp |-> base_hp + delta_sum(deck, "hp_bonus", classes),
     attack |-> base_attack + delta_sum(deck, "attack_bonus", classes),
     defense |-> base_defense + delta_sum(deck, "defense_bonus", classes),
     magic_attack |-> base_magic_attack + delta_sum(deck, "magic_attack_bonus", classes),
     max_mana |-> base_mana + delta_sum(deck, "mana_bonus", classes),
     mana_regen |-> base_mana_regen + delta_sum(deck, "mana_regen_bonus", classes),
     crit_chance |-> base_crit_chance + delta_sum(deck, "crit_chance_bonus", classes),
     crit_damage |-> base_crit_damage + delta_sum(deck, "crit_damage_bonus", classes),
     dodge_chance |-> base_dodge_chance + delta_sum(deck, "dodge_chance_bonus", classes),
     attack_speed |-> base_attack_speed + delta_sum(deck, "attack_speed_bonus", classes),
     luck |-> base_luck + delta_sum(deck, "luck_bonus", classes)]

\* whether the loadout holds a card of the class
holds_class(deck, class) == \E i \in 1..Len(deck) : Card(deck[i]).card_class = class

\* equip_deck has just returned without raising
equipped == obs.kind = "equip" /\ ~obs.raised

\* the Blind Master override of the ascension tier: dodge +100, crit 0
blind_master(st) == [st EXCEPT !.dodge_chance = @ + 1000, !.crit_chance = 0]

\* C15: an equip_deck call that raises leaves the player exactly as before
\* the call: deck, active card list, ascension flags, unique-effect flags and
\* derived stats.
C15_RefusedEquipChangesNothing ==
    obs.kind = "equip" /\ obs.raised => player = obs.before

\* C16 as stated: for a loadout without a unique-class card, after equip each
\* derived stat is its base value plus the sum of its deltas over the cards of
\* the loadout.
C16_StatsAreBasePlusSum ==
    equipped /\ ~holds_class(obs.deck, "unique")
        => derived_stats(player) = linear_stats(obs.deck, CardClasses)

\* C16 amended: for a loadout without a unique-class card, after equip each
\* derived stat is its base value plus the sum of its deltas over the cards of
\* the loadout, negative deltas included, for a player who does not hold the
\* Blind Master ascension card; for one who does, dodge chance is that sum
\* plus 100 and crit chance is 0.
C16_StatsAreBasePlusSumOrBlind ==
    equipped /\ ~holds_class(obs.deck, "unique")
        => derived_stats(player) =
              IF player.asc["Blind Master"]
              THEN blind_master(linear_stats(obs.deck, CardClasses))
              ELSE linear_stats(obs.deck, CardClasses)

\* C16, the case: a +20 HP card and a +10 ATK card give 120 / 20 / 5
C16_VitalityAndStrength ==
    /\ equipped /\ obs.deck = <<"Vitality 1", "Strength 2">>
    /\ player.max_hp = 120 /\ player.attack = 20 /\ player.defense = 5

\* C17: equip_deck called twice in a row with the same valid loadout yields
\* the derived stats and unique-effect flags of the first call: nothing
\* accumulates.
C17_SecondEquipChangesNothing ==
    obs.kind = "again"
        => /\ ~obs.raised
           /\ derived_stats(player) = derived_stats(obs.before)
           /\ player.has = obs.before.has

\* C17, the case: a loadout with deltas and one with a unique effect have
\* been equipped twice
C17_EquippedTwice ==
    /\ obs.kind = "again" /\ obs.deck = <<"Reactive Armor", "Staff">>
    /\ player.has["reactive_armor"] /\ player.magic_attack = 6

\* the unique effects and ascension cards that override a derived stat
overridden(p) ==
    \/ \E e \in {"unparalleled_swiftness", "reactive_armor", "mana_conduit",
                  "titans_strength", "arcane_tome_wielder"} : p.has[e]
    \/ p.asc["Blind Master"]

\* C18: a card of class unique or spell contributes none of its deltas to
\* the summed stats: where no override applies, the derived stats are the base
\* values plus the deltas of the stat and equipment cards alone.
C18_NoDeltaFromUniqueOrSpell ==
    equipped /\ ~overridden(player)
        => derived_stats(player) = linear_stats(obs.deck, {"stat", "equipment"})

\* C19: after a successful equip every derived stat of the player is >= 0.
C19_StatsNonNegative ==
    equipped => \A f \in DOMAIN derived_stats(player) : derived_stats(player)[f] >= 0

\* the groups whose caps the claim lists, and the caps
ListedGroups == {"sword", "wand", "shield", "quiver", "staff", "dagger", "bow",
                 "ring", "amulet", "armor"}
listed_cap(g) == IF g \in {"sword", "wand", "shield", "quiver", "ring"} THEN 2 ELSE 1

\* the group a card counts in: its weapon sub-kind, its accessory kind, armor
group_of(c) ==
    CASE c.card_type = "weapon" -> c.weapon_type
      [] c.card_type = "accessory" -> c.accessory_type
      [] c.card_type = "armor" -> "armor"
      [] OTHER -> "None"

\* the number of cards of the loadout that count in group g
group_count(deck, g) == Cardinality({i \in 1..Len(deck) : group_of(Card(deck[i])) = g})

\* every piece of equipment of the loadout is of a listed group
only_listed(deck) ==
    \A i \in 1..Len(deck) : group_of(Card(deck[i])) \in ListedGroups \cup {"None"}

\* C20: the validator returns exactly one violation, naming the group and
\* the count, for every group over its cap (sword, wand, shield, quiver and
\* rings two; staff, dagger, bow, amulets and armor one) and nothing else, and
\* equip_deck raises exactly when there is one; different groups never
\* conflict with each other.
C20_OneViolationPerGroup ==
    obs.kind = "equip" /\ only_listed(obs.deck)
        => /\ obs.errors = {[group |-> g, count |-> group_count(obs.deck, g)] :
                               g \in {h \in ListedGroups :
                                         group_count(obs.deck, h) > listed_cap(h)}}
           /\ obs.raised = (obs.errors # {})

\* C20, the case: three swords and two staffs in one loadout are reported
\* together
C20_TwoViolationsAtOnce ==
    /\ obs.kind = "equip" /\ obs.raised
    /\ obs.errors = {[group |-> "sword", count |-> 3], [group |-> "staff", count |-> 2]}

\* the heavy two-handed groups
HeavyGroups == {"greatsword", "axe", "spear"}

\* whether the loadout holds the card with this name
holds(deck, name) == \E i \in 1..Len(deck) : deck[i] = name

\* the violations the validator reported for group g
violations(g) == {e \in obs.errors : e.group = g}

\* C21: two greatswords, two axes or two spears give exactly one violation
\* when no Titan's Strength card is in the loadout and none when it is; three
\* or more of one of these sub-kinds is a violation with or without Titan's
\* Strength.
C21_HeavyPairNeedsTitansStrength ==
    obs.kind = "equip"
        => \A g \in HeavyGroups :
             /\ group_count(obs.deck, g) = 2 /\ ~holds(obs.deck, "Titan's Strength")
                    => violations(g) = {[group |-> g, count |-> 2]}
             /\ group_count(obs.deck, g) = 2 /\ holds(obs.deck, "Titan's Strength")
                    => violations(g) = {}
             /\ group_count(obs.deck, g) >= 3
                    => violations(g) = {[group |-> g, count |-> group_count(obs.deck, g)]}

\* C21, the case: two axes are accepted with Titan's Strength in the loadout
C21_TwoAxesWithTitansStrength ==
    /\ obs.kind = "equip" /\ ~obs.raised
    /\ obs.deck = <<"Titan's Strength", "Axe", "Axe">>
    /\ player.active_cards = obs.deck

\* C22: more than one tome is a violation unless the Arcane Tome Wielder
\* card is in the loadout; with that card up to four tomes are accepted, a
\* fifth is a violation, and any armor piece in the same loadout is a
\* violation.
C22_TomeCapAndNoArmor ==
    obs.kind = "equip"
        => IF holds(obs.deck, "Arcane Tome Wielder")
           THEN /\ (violations("tome") # {}) = (group_count(obs.deck, "tome") > 4)
                /\ (violations("armor") # {}) = (group_count(obs.deck, "armor") > 0)
           ELSE (violations("tome") # {}) = (group_count(obs.deck, "tome") > 1)

\* the step of main that calls reset_for_floor: the battle was won
floor_won == pc = "returned" /\ loc.won

\* C23: reset_for_floor sets current HP and current mana to their maxima and
\* clears the dodge-lock; it sets Berserker's rage to 0 unless Unending Rage is
\* active, and sets the shield to 0 unless Barrier Permanence is active, in
\* which case the shield is kept but capped at 200% of max HP.
C23_ResetForFloor ==
    [][floor_won =>
         /\ player'.current_hp = player'.max_hp
         /\ player'.current_mana = player'.max_mana
         /\ ~player'.dodged_last_attack
         /\ player'.rage_stacks =
                IF player.has["unending_rage"] THEN player.rage_stacks ELSE 0
         /\ player'.shield =
                IF player.has["barrier_permanence"]
                THEN Min(player.shield, 2 * player'.max_hp) ELSE 0]_vars

\* C23, the case: a floor was won and the reset kept the rage stacks of a
\* player with Unending Rage
C23_RageKept ==
    /\ obs.kind = "result" /\ pc = "tower"
    /\ player.has["unending_rage"] /\ player.rage_stacks > 0
    /\ player.current_hp = player.max_hp

\* C24: apart from shield and rage kept by their persistence cards, no
\* battle-scoped state survives from one floor to the next: at the start of
\* every battle the player has no active Beam channel, no Meteor wind-up, no DoT
\* effect, an inactive half-damage flag and a cleared dodge-lock.
C24_BattleStartsClean ==
    obs.kind = "enter"
        => /\ player.channeling_spell = "None"
           /\ ~player.meteor_channeling
           /\ player.dot_effects = <<>>
           /\ ~player.reactive_armor_active
           /\ ~player.dodged_last_attack

\* the queue holds an opponent that is still alive
living_opponent == \E i \in 1..Len(enemies) : enemies[i].current_hp > 0

\* C25: within one action phase each player action is made against the
\* current front-of-queue opponent, and an opponent whose HP has reached 0 or
\* below is removed from the queue before the next action, so no player action
\* is spent on an opponent with HP <= 0 while a living opponent remains.
C25_NoActionOnDefeatedFront ==
    obs.kind = "physical" /\ living_opponent => obs.before.current_hp > 0

\* ---------------------------------------------------------------------
\* Paying for spells: battles of players who run out of mana, with and
\* without the Blood Magic ascension card
\* ---------------------------------------------------------------------

\* the loadouts and ascension slots of the casters
ManaStarts ==
    {[deck |-> d, slots |-> sl, floor |-> 1, rage |-> 0, ancestral |-> 0] :
        d \in {<<"Intellect 1", "Meteor", "Quick Meteor">>, <<"Intellect 1", "Fireball">>,
               <<"Intellect 1", "Mana Amplifier">>},
        sl \in {<<>>, <<"Blood Magic">>}}

\* Combat.battle stands at its first loop test
InitMana ==
    /\ \E s \in ManaStarts :
         /\ player = camp_player(s)
         /\ enemies \in generate_enemies(s.floor)
    /\ pc = "turn"
    /\ loc = NoLocals
    /\ obs = [NoObs EXCEPT !.floors = 1]

SpecMana == InitMana /\ [][NextArena]_vars

\* the mana the next action costs: the spell's cost, or half of max mana for
\* a Mana Amplifier attack
action_cost ==
    IF action_branch(player, enemies[1]) = "spell"
    THEN Card(spell_to_cast(player)).mana_cost
    ELSE IntDiv(player.max_mana, 2)

\* the next step is a player action that has to pay mana
paying_action ==
    /\ pc = "action" /\ loc.attack_num < loc.num_attacks /\ enemies # <<>>
    /\ action_branch(player, enemies[1]) \in {"spell", "amplifier"}

\* the next step is a spell the player cannot pay for, with Blood Magic or
\* without
unpaid_spell ==
    /\ paying_action
    /\ action_branch(player, enemies[1]) = "spell"
    /\ action_cost > player.current_mana
    /\ ~(player.asc["Blood Magic"]
          /\ player.current_hp - (action_cost - player.current_mana) > 1)

\* the skipped action leaves mana, HP and the enemies as they were
skip_changes_nothing ==
    /\ player'.current_mana = player.current_mana
    /\ player'.current_hp = player.current_hp
    /\ enemies' = enemies

\* C26: when the player's action is a spell whose mana cost exceeds current
\* mana and Blood Magic cannot cover the shortfall, the action is skipped:
\* mana, HP and the enemies are unchanged, and the skipped attempt does not use
\* up one of the action slots computed for that turn.
C26_SkippedCastKeepsSlot ==
    [][unpaid_spell => skip_changes_nothing /\ loc'.attack_num = loc.attack_num]_vars

\* C26 as the code has it: the skipped attempt changes nothing of mana, HP and
\* the enemies, and it uses up one of the action slots of the turn
C26_SkippedCastUsesSlot ==
    [][unpaid_spell => skip_changes_nothing /\ loc'.attack_num = loc.attack_num + 1]_vars

\* C26, the case: a player with Blood Magic and too little HP left has
\* skipped a Meteor
C26_MeteorSkipped ==
    /\ obs.kind = "spell" /\ obs.cast_attacks = 0
    /\ player.asc["Blood Magic"] /\ player.equipped_spell = "Meteor"
    /\ player.current_mana < 50 /\ player.current_hp < 50

\* C27: Blood Magic pays a mana shortfall from HP only when the player's HP
\* after the payment is still above 1: it never brings HP to 1 or below and
\* never triggers escape, and when it pays, current mana becomes 0 and HP
\* drops by exactly the shortfall.
C27_BloodMagicKeepsHPAboveOne ==
    [][paying_action /\ player'.current_hp # player.current_hp =>
         /\ player.asc["Blood Magic"]
         /\ action_cost > player.current_mana
         /\ player'.current_hp = player.current_hp - (action_cost - player.current_mana)
         /\ player'.current_hp > 1
         /\ player'.current_mana = 0
         /\ player'.escaped_floor = player.escaped_floor
         /\ player'.is_alive = player.is_alive]_vars

\* C27, the case: in the first turn a second Meteor was paid with 50 HP
C27_MeteorPaidFromHP ==
    /\ obs.kind = "spell" /\ obs.turns = 1
    /\ player.asc["Blood Magic"] /\ player.equipped_spell = "Meteor"
    /\ player.current_mana = 0 /\ player.current_hp = player.max_hp - 50

\* ---------------------------------------------------------------------
\* The save file: card_to_dict, dict_to_card, save_game and load_game
\* ---------------------------------------------------------------------

\* JSON values: null, a string, a number
JNull == [json |-> "null"]
JStr(x) == [json |-> "string", v |-> x]
JNum(x) == [json |-> "number", v |-> x]

\* Python's truth value of a loaded JSON value
truthy(j) ==
    /\ j.json # "null"
    /\ ~(j.json = "string" /\ j.v = "")
    /\ ~(j.json = "number" /\ j.v = 0)

\* the values of the Enum classes
CardTypeValues == {"weapon", "armor", "accessory", "spell", "passive", "consumable"}
CardClassValues == {"stat", "unique", "equipment", "spell"}
WeaponTypeValues == {"sword", "wand", "shield", "quiver", "greatsword", "axe", "spear",
                     "staff", "tome", "dagger", "bow"}
AccessoryTypeValues == {"ring", "amulet"}

\* the keys of a card's dictionary that hold the value of an Enum member, the
\* keys that hold a string or None, and the keys that hold a number
EnumKeys == {"card_type", "card_class", "weapon_type", "accessory_type"}
TextKeys == {"name", "description", "special_effect", "spawn_condition"}
NumberKeys == {"hp_bonus", "attack_bonus", "defense_bonus", "magic_attack_bonus",
               "mana_bonus", "mana_regen_bonus", "crit_chance_bonus", "crit_damage_bonus",
               "dodge_chance_bonus", "attack_speed_bonus", "luck_bonus", "damage",
               "magic_damage", "mana_cost"}
CardKeys == EnumKeys \cup TextKeys \cup NumberKeys

\* the values an Enum class is constructed from
EnumValues(k) ==
    CASE k = "card_type" -> CardTypeValues
      [] k = "card_class" -> CardClassValues
      [] k = "weapon_type" -> WeaponTypeValues
      [] OTHER -> AccessoryTypeValues

\* a Card object with all the attributes of Card.__init__; the description
\* is a text that stands here as the card's name
CardObject(n) ==
    Card(n) @@ [description |-> n, magic_damage |-> 0, spawn_condition |-> "None"]

\* card_to_dict without the accessory kind
card_to_dict_short(card) ==
    [k \in CardKeys |->
        IF k \in NumberKeys THEN JNum(card[k])
        ELSE IF card[k] = "None" \/ k = "accessory_type" THEN JNull ELSE JStr(card[k])]

\* card_to_dict, as json.dump writes it: the value of an Enum member or null,
\* a string or null, a number
card_to_dict(card) ==
    [k \in CardKeys |->
        IF k \in NumberKeys THEN JNum(card[k])
        ELSE IF card[k] = "None" THEN JNull ELSE JStr(card[k])]

\* whether dict_to_card returns: every key is there and every Enum value names
\* a member
card_loads(card_dict) ==
    /\ CardKeys \subseteq DOMAIN card_dict
    /\ \A k \in EnumKeys : truthy(card_dict[k]) => card_dict[k].v \in EnumValues(k)

\* dict_to_card
dict_to_card(card_dict) ==
    [k \in CardKeys |->
        IF k \in EnumKeys
        THEN IF truthy(card_dict[k]) THEN card_dict[k].v ELSE "None"
        ELSE IF card_dict[k].json = "null" THEN "None" ELSE card_dict[k].v]

\* the keys load_game reads with player_data[...]
RequiredKeys == {"name", "level", "current_xp", "highest_floor", "bounty",
                 "ascension_slots", "deck"}

\* player_data of save_game
player_data(p) ==
    [name |-> JStr(p.name), level |-> JNum(p.level), current_xp |-> JNum(p.current_xp),
     highest_floor |-> JNum(p.highest_floor), bounty |-> JNum(p.bounty),
     day |-> JNum(p.day),
     ascension_slots |-> [i \in 1..Len(p.ascension_slots) |-> JStr(p.ascension_slots[i])],
     deck |-> [i \in 1..Len(p.deck) |-> card_to_dict(p.deck[i])]]

\* save_data of save_game
save_data(players) ==
    [num_players |-> JNum(Len(players)),
     players |-> [i \in 1..Len(players) |-> player_data(players[i])]]

\* the file: none, one that cannot be opened, one that is not JSON, a
\* JSON document
NoFile == [state |-> "absent"]
Unreadable == [state |-> "unreadable"]
Garbage == [state |-> "malformed"]
Document(d) == [state |-> "json", data |-> d]

\* Player(name)
Player_named(name) == [name |-> name] @@ Player_init

\* the player load_game makes of player_data, with the day of the save
load_player(d) ==
    [Player_named(d.name.v) EXCEPT
        !.level = d.level.v, !.current_xp = d.current_xp.v,
        !.highest_floor = d.highest_floor.v, !.bounty = d.bounty.v,
        !.day = d.day.v,
        !.ascension_slots = [i \in 1..Len(d.ascension_slots) |-> d.ascension_slots[i].v],
        !.deck = [i \in 1..Len(d.deck) |-> dict_to_card(d.deck[i])]]

\* the loop body of load_game: player_data.get('day', 1)
load_player_data(d) ==
    load_player([k \in DOMAIN d \cup {"day"} |->
                    IF k \in DOMAIN d THEN d[k] ELSE JNum(1)])

\* whether the try block of load_game runs to its end on this document
document_loads(data) ==
    /\ "players" \in DOMAIN data
    /\ \A i \in 1..Len(data.players) :
         /\ RequiredKeys \subseteq DOMAIN data.players[i]
         /\ \A j \in 1..Len(data.players[i].deck) : card_loads(data.players[i].deck[j])

\* the results of load_game
NoneResult == [kind |-> "None"]
Loaded(players) == [kind |-> "players", players |-> players]

\* load_game: FileNotFoundError and every other Exception give None
load_game(file) ==
    IF file.state = "json" /\ document_loads(file.data)
    THEN Loaded([i \in 1..Len(file.data.players) |->
                    load_player_data(file.data.players[i])])
    ELSE NoneResult

\* the most players of a game in the runs
MaxParty == 2

\* what a player has reached: a new player, and the player of the test
Progress ==
    {[level |-> 1, current_xp |-> 0, highest_floor |-> 0, bounty |-> 0, day |-> 1,
      ascension_slots |-> <<>>],
     [level |-> 10, current_xp |-> 500, highest_floor |-> 250, bounty |-> 1000, day |-> 3,
      ascension_slots |-> <<"Ancestral Rage">>]}

\* the decks that are saved
SavedDecks == {<<>>, <<"Sword", "Plate Armor">>, <<"Intellect 1", "Beam", "Ring of Power">>}

\* the players of a game: the deck holds Card objects
SavedPlayers ==
    {[Player_named(n) EXCEPT
         !.level = g.level, !.current_xp = g.current_xp,
         !.highest_floor = g.highest_floor, !.bounty = g.bounty, !.day = g.day,
         !.ascension_slots = g.ascension_slots,
         !.deck = [i \in 1..Len(d) |-> CardObject(d[i])]] :
        n \in {"TestHero", "DeckTester"}, g \in Progress, d \in SavedDecks}

\* the games: lists of one player or more
Parties == UNION {[1..n -> SavedPlayers] : n \in 1..MaxParty}

\* a record without one of its keys
DropKey(r, k) == [x \in DOMAIN r \ {k} |-> r[x]]

\* what can have happened to a saved document when it is read again
Damaged(d) ==
    {Unreadable, Garbage, Document(DropKey(d, "players")),
     Document([d EXCEPT !.players[1] = DropKey(@, "level")]),
     Document([d EXCEPT !.players[1] = DropKey(@, "day")])}
    \cup (IF Len(d.players[1].deck) > 0
          THEN {Document([d EXCEPT !.players[1].deck[1].card_type = JStr("relic")])}
          ELSE {})

\* the game has its players and there is no save file
InitSave ==
    /\ player = Player_init
    /\ enemies = <<>>
    /\ loc = NoLocals
    /\ pc = "playing"
    /\ \E ps \in Parties :
         obs = [kind |-> "none", players |-> ps, file |-> NoFile, intact |-> FALSE,
                result |-> NoneResult]

\* save_game(players)
SaveGame ==
    /\ pc = "playing"
    /\ obs.kind = "none"
    /\ obs' = [obs EXCEPT !.kind = "save", !.file = Document(save_data(obs.players)),
                          !.intact = TRUE]
    /\ UNCHANGED <<player, enemies, loc, pc>>

\* the file is damaged before the game is started again
DamageFile ==
    /\ pc = "playing"
    /\ obs.kind = "save"
    /\ \E f \in Damaged(obs.file.data) :
         obs' = [obs EXCEPT !.kind = "damage", !.file = f, !.intact = FALSE]
    /\ UNCHANGED <<player, enemies, loc, pc>>

\* main: players = load_game("save_game.json")
LoadGame ==
    /\ pc = "playing"
    /\ obs' = [obs EXCEPT !.kind = "load", !.result = load_game(obs.file)]
    /\ pc' = "setup"
    /\ UNCHANGED <<player, enemies, loc>>

NextSave ==
    \/ SaveGame
    \/ DamageFile
    \/ LoadGame

SpecSave == InitSave /\ [][NextSave]_vars

\* C28: load_game reports a missing save file as the absent result (None)
\* without raising, and reports a save file that exists but is unreadable or
\* malformed with a result that differs from the absent result, so that a
\* caller can tell "no save yet" from "save exists but is corrupt".
C28_CorruptDiffersFromAbsent ==
    pc = "setup"
        => /\ obs.file.state = "absent" => obs.result = NoneResult
           /\ obs.file.state \in {"unreadable", "malformed"} => obs.result # NoneResult

\* the fields of a player that the save keeps
same_progress(a, b) ==
    /\ a.name = b.name /\ a.level = b.level /\ a.current_xp = b.current_xp
    /\ a.highest_floor = b.highest_floor /\ a.bounty = b.bounty /\ a.day = b.day
    /\ a.ascension_slots = b.ascension_slots

MaxGains == 2

\* the floors that are cleared
XpFloors == {1, 8, 30, 40}

\* the levels of the players
XpLevels == {1, 2, 9, 10, 19, 20}

\* the players before the call: the XP is below the level's threshold
XpPlayers ==
    UNION {{[Player_init EXCEPT !.level = l, !.current_xp = x] :
               x \in {0, get_xp_for_next_level(l) - 1}} : l \in XpLevels}

InitXp ==
    /\ player \in XpPlayers
    /\ enemies = <<>>
    /\ loc = NoLocals
    /\ pc = "won"
    /\ obs = [kind |-> "none", before |-> player, floor |-> 0, returned |-> FALSE,
              gains |-> 0]

\* player.gain_xp(floor)
GainXp ==
    /\ pc = "won"
    /\ obs.gains < MaxGains
    /\ \E floor \in XpFloors :
       \E g \in {gain_xp(player, floor)} :
         /\ player' = g.player
         /\ obs' = [kind |-> "gain_xp", before |-> player, floor |-> floor,
                    returned |-> g.leveled_up, gains |-> obs.gains + 1]
    /\ UNCHANGED <<enemies, loc, pc>>

NextXp == GainXp

SpecXp == InitXp /\ [][NextXp]_vars

\* the XP a player of this level needs for the next level
threshold(level) == level * level * 1000 + (level \div 10) * 10000

RECURSIVE spent(_, _)
\* the thresholds subtracted on the way from one level to another
spent(from, to) == IF from >= to THEN 0 ELSE threshold(from) + spent(from + 1, to)

\* C30: gain_xp adds the cleared floor's XP and then, while level < 20 and
\* XP >= level^2 x 1000 + floor(level/10) x 10000, subtracts that threshold
\* and raises the level by one, possibly several times in one call; afterwards
\* level <= 20 and, if level < 20, XP is below the next threshold; it returns
\* true exactly when the level rose.
C30_GainXp ==
    obs.kind = "gain_xp"
        => /\ player.level >= obs.before.level /\ player.level <= 20
           /\ player.current_xp >= 0
           /\ player.current_xp + spent(obs.before.level, player.level)
                 = obs.before.current_xp + get_xp_from_floor(obs.floor)
           /\ player.level < 20 => player.current_xp < threshold(player.level)
           /\ obs.returned = (player.level > obs.before.level)

\* C30, the case: one call raised the level by two or more
C30_SeveralLevels ==
    /\ obs.kind = "gain_xp" /\ obs.returned
    /\ player.level >= obs.before.level + 2

\* the first battle of the run has been won
first_battle_won ==
    /\ pc = "returned" /\ loc.won
    /\ obs.floors <= 1 /\ player.day = 1

types_after(t) ==
    CASE t = "sword" -> {"sword", "shield"}
      [] t = "bow" -> {"quiver", "dagger"}
      [] t = "wand" -> {"wand"}
      [] t = "dagger" -> {"bow"}
      [] t = "shield" -> {"sword", "axe", "spear"}
      [] t = "quiver" -> {"bow"}
      [] OTHER -> {}

\* the sub-kinds of the weapons held: w.weapon_type for w in equipped_weapons
\* if w.weapon_type
held_types(equipped_weapons) ==
    SelectSeq([i \in 1..Len(equipped_weapons) |-> equipped_weapons[i].weapon_type],
              LAMBDA t : t # "None")

\* get_compatible_weapon_types without the limit of two weapons
get_compatible_weapon_types_unlimited(equipped_weapons) ==
    IF equipped_weapons = <<>> THEN [all |-> TRUE, types |-> {}]
    ELSE [all |-> FALSE, types |-> types_after(held_types(equipped_weapons)[1])]

\* get_compatible_weapon_types: None (all) for no weapon, or the list
get_compatible_weapon_types(equipped_weapons) ==
    IF equipped_weapons = <<>> THEN [all |-> TRUE, types |-> {}]
    ELSE IF Len(held_types(equipped_weapons)) >= 2 THEN [all |-> FALSE, types |-> {}]
    ELSE [all |-> FALSE, types |-> types_after(held_types(equipped_weapons)[1])]

\* can_equip_weapon
can_equip_weapon(card, equipped_weapons) ==
    IF card.card_type # "weapon" THEN TRUE
    ELSE IF get_compatible_weapon_types(equipped_weapons).all THEN TRUE
    ELSE card.weapon_type \in get_compatible_weapon_types(equipped_weapons).types

\* the most weapons held when a card is offered
MaxHeld == 2

\* the weapons of the card pools, and the cards that are offered
PackWeapons == {"Sword", "Wand", "Shield", "Quiver", "Greatsword", "Axe", "Spear", "Staff",
                "Tome", "Dagger", "Bow"}
PackCards == PackWeapons \cup {"Impaler", "Plate Armor", "Ring of Power", "Vitality 1"}

\* the player holds some weapons and a card is about to be offered
InitPack ==
    /\ player = Player_init
    /\ enemies = <<>>
    /\ loc = NoLocals
    /\ pc = "pack"
    /\ \E n \in 0..MaxHeld : \E held \in [1..n -> PackWeapons] :
         obs = [kind |-> "none", held |-> held, card |-> "None", accepted |-> FALSE]

\* can_equip_weapon(card, equipped_weapons)
CanEquipWeapon ==
    /\ pc = "pack"
    /\ obs.kind = "none"
    /\ \E card \in PackCards :
         obs' = [obs EXCEPT !.kind = "checked", !.card = card,
                            !.accepted = can_equip_weapon(Card(card), Cards(obs.held))]
    /\ UNCHANGED <<player, enemies, loc, pc>>

NextPack == CanEquipWeapon

SpecPack == InitPack /\ [][NextPack]_vars

\* the sub-kinds the claim lets follow a first weapon of a sub-kind
pairings(first) ==
    CASE first = "sword" -> {"sword", "shield"}
      [] first = "bow" -> {"quiver", "dagger"}
      [] first = "wand" -> {"wand"}
      [] first = "dagger" -> {"bow"}
      [] first = "shield" -> {"sword", "axe", "spear"}
      [] first = "quiver" -> {"bow"}
      [] first \in {"greatsword", "axe", "spear", "staff", "tome"} -> {}

CardParameters == CardKeys \ {"name", "card_type", "card_class", "description"}

\* the stat attributes Player.__init__ sets
PlayerAttributes ==
    {"base_hp", "max_hp", "current_hp", "base_attack", "attack", "base_defense", "defense",
     "base_magic_attack", "magic_attack", "base_mana", "max_mana", "current_mana",
     "base_mana_regen", "mana_regen", "base_crit_chance", "crit_chance",
     "base_crit_damage", "crit_damage", "base_dodge_chance", "dodge_chance",
     "base_attack_speed", "attack_speed", "base_luck", "luck"}

\* the methods of Player
PlayerMethods ==
    {"equip_deck", "_apply_ascension_cards", "_validate_equipment_limits",
     "_apply_card_bonuses", "take_damage", "heal", "get_weapon_damage", "get_attack_speed",
     "regenerate_mana", "has_magic_weapon", "can_cast_spells", "can_dodge",
     "calculate_damage", "reset_for_floor", "get_xp_for_next_level", "get_xp_from_floor",
     "get_floor_bonus_packs", "get_max_packs", "gain_xp", "gain_bounty"}

\* Player.heal
Player_heal(p, amount) == [p EXCEPT !.current_hp = Min(p.current_hp + amount, p.max_hp)]

\* the HP a test sets before it regenerates, and the bonuses of its cards
RegenHP == {1, 50, 55, 91, 93, 95, 98, 100}
RegenBonus == {2, 5, 9}
RegenReads == {"base_health_regen", "health_regen", "base_mana_regen", "mana_regen"}
RegenCalls == {"regenerate_health", "regenerate_mana", "heal"}
RegenKeywords == {"health_regen_bonus", "mana_regen_bonus", "hp_bonus"}

InitRegen ==
    /\ \E h \in RegenHP : \E m \in {0, 48} :
         player = [Player_init EXCEPT !.current_hp = h, !.current_mana = m]
    /\ enemies = <<>>
    /\ loc = NoLocals
    /\ pc = "regen"
    /\ obs = [kind |-> "none", name |-> "None", raised |-> FALSE, value |-> 0, hp |-> 0]

\* player.<name> : AttributeError when the object has no such attribute
ReadAttribute ==
    /\ pc = "regen"
    /\ obs.kind = "none"
    /\ \E name \in RegenReads :
         obs' = [obs EXCEPT !.kind = "read", !.name = name,
                            !.raised = name \notin PlayerAttributes,
                            !.value = CASE name = "base_mana_regen" -> base_mana_regen
                                        [] name = "mana_regen" -> player.mana_regen
                                        [] OTHER -> 0]
    /\ UNCHANGED <<player, enemies, loc, pc>>

\* player.<name>(...) : AttributeError when the object has no such method
CallMethod ==
    /\ pc = "regen"
    /\ obs.kind = "none"
    /\ \E name \in RegenCalls : \E amount \in RegenBonus :
         /\ obs' = [obs EXCEPT !.kind = "call", !.name = name,
                               !.raised = name \notin PlayerMethods,
                               !.value = amount, !.hp = player.current_hp]
         /\ player' = CASE name \notin PlayerMethods -> player
                        [] name = "regenerate_mana" -> Player_regenerate_mana(player)
                        [] name = "heal" -> Player_heal(player, amount)
    /\ UNCHANGED <<enemies, loc, pc>>

\* Card(name, card_type, card_class, description, <keyword>=value) : TypeError
\* when __init__ has no such parameter
NewCard ==
    /\ pc = "regen"
    /\ obs.kind = "none"
    /\ \E name \in RegenKeywords : \E value \in RegenBonus :
         obs' = [obs EXCEPT !.kind = "card", !.name = name,
                            !.raised = name \notin CardParameters, !.value = value]
    /\ UNCHANGED <<player, enemies, loc, pc>>

NextRegen == ReadAttribute \/ CallMethod \/ NewCard

SpecRegen == InitRegen /\ [][NextRegen]_vars

\* C33: a player has a health-regen stat with base value 5 that cards raise
\* through health_regen_bonus by plain summation and that card serialization
\* keeps; regenerate_health raises current HP by that stat and never above
\* max HP.
C33_HealthRegen ==
    /\ obs.kind = "read" /\ obs.name \in {"base_health_regen", "health_regen"}
          => ~obs.raised /\ obs.value = 5
    /\ obs.kind = "card" /\ obs.name = "health_regen_bonus"
          => ~obs.raised /\ "health_regen_bonus" \in CardKeys
    /\ obs.kind = "call" /\ obs.name = "regenerate_health"
          => ~obs.raised /\ player.current_hp = Min(obs.hp + 5, player.max_hp)

\* ---------------------------------------------------------------------
\* The battles of a Berserker's Rage player who attacks twice a turn

\* the stacks such a player holds when the battle is taken up
TwoHitStacks == {0, 48, 49}

\* Combat.battle stands at a loop test in the battle of floor RageFloor
InitRage ==
    /\ \E r \in TwoHitStacks :
         player = camp_player([deck |-> <<"Sword", "Berserker's Rage">>, slots |-> <<>>,
                               floor |-> RageFloor, rage |-> r, ancestral |-> 0])
    /\ enemies \in generate_enemies(RageFloor)
    /\ pc = "turn"
    /\ loc = NoLocals
    /\ obs = [NoObs EXCEPT !.floors = 1]

SpecRage == InitRage /\ [][NextCamp]_vars

\* the attack loop is left and the code after it has run
loop_left == pc = "action" /\ pc' \in {"enemies", "returned"}

\* C34: each player physical hit that deals damage adds one rage stack, up
\* to the cap of 50, so a turn in which k physical hits land adds
\* min(k, 50 - stacks) stacks; spell casts and dodged hits add none.
C34_RagePerHit ==
    [][loop_left /\ player.has["berserkers_rage"]
          => player'.rage_stacks
                = player.rage_stacks + Min(obs.hits, 50 - player.rage_stacks)]_vars

\* ---------------------------------------------------------------------
\* One battle to its end, with fair rolls

\* the loadouts and the floors of the battles that are followed to their end
FairDecks == {<<"Sword", "Reckless 4">>}
FairFloors == {1}

\* Combat.battle stands at its first loop test
InitFair ==
    /\ \E d \in FairDecks : \E f \in FairFloors :
         /\ player = camp_player([deck |-> d, slots |-> <<>>, floor |-> f, rage |-> 0,
                                  ancestral |-> 0])
         /\ enemies \in generate_enemies(f)
    /\ pc = "turn"
    /\ loc = NoLocals
    /\ obs = [NoObs EXCEPT !.floors = 1]

\* the steps of Combat.battle
NextFair ==
    \/ TurnBegins
    \/ ProcessBeam
    \/ ProcessMeteor
    \/ ProcessDots
    \/ PlayerPhase
    \/ PlayerAction
    \/ AfterActions
    \/ EnemyBegin
    \/ EnemyAttack

\* the steps of Combat.battle besides the attacks of the player's action
\* loop and of the enemies
Unrolled ==
    \/ TurnBegins
    \/ ProcessBeam
    \/ ProcessMeteor
    \/ ProcessDots
    \/ PlayerPhase
    \/ AfterActions
    \/ EnemyBegin

\* the call runs on, and no outcome of a roll is excluded forever: an attack
\* that is made over and over is eventually not dodged, an enemy whose bonus
\* attack is rolled over and over eventually attacks
FairRolls ==
    /\ WF_vars(Unrolled)
    /\ SF_vars(PlayerAction /\ ~obs'.dodged)
    /\ SF_vars(EnemyAttack /\ ~obs'.dodged)
    /\ SF_vars(EnemyBegin /\ loc'.enemy_attacks > 0)

SpecFair == InitFair /\ [][NextFair]_vars /\ FairRolls

\* C35: every battle entered by a living player against at least one enemy
\* eventually ends in Won or Escaped, assuming only that dodge, crit and
\* bonus-action rolls are fair; no battle stays in progress forever.
C35_BattleEnds == <>(pc = "returned")

\* C35, the case: a battle of more than three turns has ended
C35_LongBattleEnded == pc = "returned" /\ obs.turns > 3

\* ---------------------------------------------------------------------
\* The Impale mark

\* a physical hit of the player lands on a front enemy that bears the mark
hit_on_impaled ==
    /\ pc = "action" /\ enemies # <<>> /\ enemies[1].impaled
    /\ loc'.attack_num = loc.attack_num + 1
    /\ obs'.kind = "physical" /\ ~obs'.dodged

\* the HP the main hit takes from enemy e
main_hit(e, damage) == Max(1, damage - e.defense)

\* C36: once an opponent is marked impaled by any source (a critical hit
\* with the Impaler ascension, or any hit with the Impaler unique weapon), the
\* player's next physical hit on that opponent consumes the mark and adds the
\* bonus hit of 70% of the main hit's damage: the opponent that survives the
\* main hit loses more HP than the main hit takes.
C36_ImpaledHitAddsBonus ==
    [][hit_on_impaled /\ enemies[1].current_hp > main_hit(enemies[1], loc'.damage_dealt)
          => enemies'[1].current_hp
                < enemies[1].current_hp - main_hit(enemies[1], loc'.damage_dealt)]_vars

\* C37: the player uses a spell (the equipped spell or the fallback Bolt) as
\* an action only when holding a wand, staff or tome or the Spellblade card;
\* without any of them every action is a physical attack.
C37_SpellNeedsMagicWeapon == obs.kind = "spell" => can_cast_spells(player)

\* the enemy phase of a turn begins: `for enemy in enemies[:]` is entered
enemy_phase_begins == pc = "enemies" /\ loc.enemy_index = 0

\* C38: an opponent whose HP is 0 or below never acts: at the start of every
\* enemy phase every opponent still in the queue has HP > 0, so the player is
\* never attacked by a defeated opponent.
C38_NoDefeatedEnemyActs ==
    /\ enemy_phase_begins => \A i \in 1..Len(enemies) : enemies[i].current_hp > 0
    /\ obs.kind = "enemy_attack" /\ loc.enemy_index \in 1..Len(enemies)
          => enemies[loc.enemy_index].current_hp > 0

\* ---------------------------------------------------------------------
\* The spell slots after an equip

\* the card a loadout provides for a slot: the i-th spell-class card when
\* the slot is allowed, no card ("None") otherwise
slot_of(deck, i, allowed) ==
    IF allowed /\ i <= Len(SpellCards(Cards(deck))) THEN SpellCards(Cards(deck))[i] ELSE "None"

\* whether the loadout holds the unique card of an effect
loadout_has(deck, effect) ==
    \E i \in 1..Len(deck) : Card(deck[i]).special_effect = effect

\* the index of the battery slot's spell: the third spell with Dual Cast and
\* three spells, the second otherwise
battery_slot(deck) ==
    IF loadout_has(deck, "dual_cast") /\ Len(SpellCards(Cards(deck))) >= 3 THEN 3 ELSE 2

\* C40: after a successful equip the player's spell slots are determined by
\* the new loadout alone: the equipped spell is the first spell-class card of
\* the loadout (second and battery slots as Dual Cast and Arcane Battery
\* allow), and a slot is empty when the loadout provides no spell for it,
\* never holding a spell left over from an earlier loadout or an earlier day.
C40_SpellSlotsFromLoadout ==
    obs.kind = "equip" /\ ~obs.raised
        => /\ player.equipped_spell = slot_of(obs.deck, 1, TRUE)
           /\ player.equipped_spell_2 = slot_of(obs.deck, 2, loadout_has(obs.deck, "dual_cast"))
           /\ player.battery_spell
                 = slot_of(obs.deck, battery_slot(obs.deck),
                           loadout_has(obs.deck, "arcane_battery")
                              /\ Len(SpellCards(Cards(obs.deck))) >= 2)

====
